---------------------------- MODULE Spec2Model ----------------------------
(***************************************************************************)
(* A model of mcp-validation: the validation orchestrator and the CLI      *)
(* around it (core/validator.py, cli/main.py), the ordering of validators, *)
(* the stdio / HTTP / SSE transports (core/transport.py,                    *)
(* core/http_transport.py, core/sse_transport.py) and the protocol         *)
(* validator (validators/protocol.py).                                     *)
(*                                                                         *)
(* The module holds several specifications over one set of variables; a    *)
(* specification leaves the variables of the other parts at their idle     *)
(* values:                                                                 *)
(*   Spec          one CLI run: main -> validate_server -> exit code       *)
(*   SpecSort      _sort_validators_by_dependencies on a declared profile  *)
(*   SpecStdio     StdioTransport.send_and_receive against a server pipe   *)
(*   SpecClose     the life cycle of the three transports under close()    *)
(*   SpecProtocol  ProtocolValidator.validate on an initialize response    *)
(***************************************************************************)
EXTENDS Integers, Sequences, FiniteSets, TLC

VARIABLES
    \* ---- one CLI run (Spec) ----
    profile,        \* ValidationProfile: decl, required, continue_on_failure, parallel_execution
    cfgApplicable,  \* per validator: the configuration part of is_applicable
    transportType,  \* "stdio" | "http"
    pc,             \* position in main / validate_server
    transport,      \* the transport handle of validate_server (NoTransport before creation)
    closeCalls,     \* number of transport.close() calls made by validate_server
    validators,     \* the sorted validator list of _create_validators
    idx,            \* loop index of _execute_validators_sequential (1-based)
    results,        \* the local list `results` of _execute_validators_sequential
    started,        \* names of the validators whose validate() was called, in order
    escaped,        \* the exceptions that escaped a validate() call: [name, msg], in order
    context,        \* ValidationContext: server_info, capabilities
    session,        \* the returned ValidationSession (NoSession before)
    sessionErrors,  \* the local list `errors` of validate_server
    failure,        \* what ended main abnormally: "none" | "config" | "interrupt" | "unexpected"
    exitCode,       \* the exit code of main (-1 while running)
    \* ---- the sort (SpecSort) ----
    sortDecl,       \* the validators as declared (profile.validators order)
    sortPc,         \* "priority" | "remaining" | "done"
    sortPos,        \* index into PriorityNames / sortDecl
    sortState,      \* [sorted, processed] of _sort_validators_by_dependencies
    \* ---- the stdio pipe (SpecStdio) ----
    pipe,           \* lines written by the server and not yet read, oldest first
    request_id,     \* StdioTransport.request_id
    pending,        \* ids of requests the server has received and not yet answered
    unanswered,     \* ids of requests whose read timed out
    exchange,       \* the last send_and_receive: [id, outcome, msg]
    srvMsgs,        \* number of server-initiated messages emitted so far
    \* ---- transport life cycle (SpecClose) ----
    tr,             \* the transport object under test
    trRaised,       \* whether the last operation on tr raised
    trCloses,       \* number of close() calls completed on tr
    trLog,          \* resource operations close() performed on tr, in order
    \* ---- protocol validator alone (SpecProtocol) ----
    pvPc,           \* "idle" | "done"
    pvResponse,     \* the outcome of send_and_receive("initialize")
    pvNotifyOk,     \* whether sending notifications/initialized succeeds
    pvResult,       \* the ValidatorResult returned
    pvContext,      \* the context after validate
    \* ---- Ping ----
    pingPc,         \* "idle" | "done"
    pingConfig,     \* the ping validator's config: max_response_time_ms
    pingResponse,   \* the outcome of send_and_receive("ping") and the time it took
    pingResult,     \* the ValidatorResult returned
    \* ---- Malformed ----
    mfPc,           \* "start" | "reading" | "done"
    mfConfig,       \* strict_malformed_handling, strict_error_codes
    mfStdio,        \* whether context.process is a subprocess with a stdin
    mfWriteOk,      \* whether writing the malformed line to stdin succeeds
    mfIncoming,     \* the lines the server writes within malformed_timeout, oldest first
    mfPos,          \* index in mfIncoming of the next line readline() returns
    mfData,         \* data["malformed_request_test"]
    mfWarnings,     \* the warnings the sub-test appended
    \* ---- Registry ----
    regPc,          \* "loop" | "done"
    regPackages,    \* packages_to_validate: [name, registry_type, outcome of the registry request]
    regPos,         \* index of the package the loop is at
    regErrors,      \* errors of RegistryValidator.validate
    regWarnings,    \* warnings of RegistryValidator.validate
    regData,        \* data: packages_found, packages_missing, registry_errors
    regResult,      \* the ValidatorResult returned
    \* ---- Container ----
    ctPc,           \* "off" or "ready"
    ctCommand,      \* command_args, a sequence of tokens
    ctImageAt,      \* position of the image in ctCommand as docker reads it, 0 if none
    ctEnv,          \* env_vars in iteration order, [key, value] records
    ctDone,         \* operations applied so far
    ctInjected,     \* result of _inject_container_env_vars
    ctImage,        \* result of _extract_image_name
    ctExecuted,     \* argv handed to create_subprocess_exec
    ctEnvUpdated,   \* env.update(env_vars) was executed
    ctSessionArgs,  \* ValidationSession.command_args
    \* ---- Mask ----
    maskPc,         \* "off", "ready" or "done"
    maskKey,        \* key, a sequence of characters
    maskValue,      \* value, a sequence of characters
    maskOut,        \* the string returned
    \* ---- Security ----
    secPc,          \* "off", "ready" or "done"
    secThreshold,   \* config vulnerability_threshold
    secDiscovered,  \* len(context.discovered_tools), 0 for None
    secScan,        \* what the scanner is and does: [kind, results]
    secResult,      \* the ValidatorResult returned
    \* ---- Capabilities ----
    capPc,          \* "off", the list request that is next, "return" or "done"
    capAdvertised,  \* the keys of context.capabilities
    capMaxItems,    \* config max_items_to_list
    capRequests,    \* the list requests made and how each ended
    capErrors,      \* errors of validate
    capWarnings,    \* warnings of validate
    capData,        \* data of validate
    capResult,      \* the ValidatorResult returned
    \* ---- Shutdown ----
    scPc,           \* "off" or the position of StdioTransport.close
    scProc,         \* the subprocess: "running", "exited", or "reaped" once the event loop has seen the exit
    scWaited,       \* seconds spent in wait_for(process.wait())
    scLog,         \* the calls close has made on the process
    scExitedAt,     \* where close stood when the subprocess exited, "" while it runs
    \* ---- Dispatch ----
    dpVia,          \* the execution routines entered, in order
    dpOutcomes,     \* what validate() of each validator other than protocol does in this run
    dpResponse,     \* the server's initialize response in this run
    dpRunning,      \* the validators whose validate() is executing
    \* ---- OAuth ----
    oaPc,           \* "off" or the position of the polling loop
    oaCallback,     \* callback_data, shared with the listener thread
    oaPending,      \* redirect requests on their way to the listener
    oaHandled,      \* redirect requests the listener has taken, in order
    oaHandler,      \* the listener thread: "idle" or "state" when it has yet to write the state
    oaPolls,        \* iterations of the polling loop that ended in the sleep
    oaReturned,     \* the pair that was returned
    \* ---- Rewritten ----
    rwImage,        \* _extract_image_name of the command that injection returned
    \* ---- Config ----
    cmPc,           \* "off", "init" inside __init__, "ready" or "failed" when __init__ raised
    cmProfiles,     \* the keys of self.profiles
    cmActive,       \* self.active_profile
    cmLast,         \* the last call and how it ended
    cmCalls,        \* calls made on the manager
    \* ---- Create ----
    crNames,        \* the keys of profile.validators, in order
    crEnabled,      \* the keys whose ValidatorConfig has enabled = True
    crPc,           \* "off", "create" before the loop of _create_validators, "sort" after it
    \* ---- ReadLoop ----
    rlPc,           \* "off" or the position in the read loop: "check", "await", "parse", "done"
    rlElapsed,      \* ticks of the event loop's clock since start_time, counted up to the timeout
    rlWaitLeft,     \* ticks left of the timeout given to wait_for
    rlBuffered,     \* lines the server has written and the loop has not read
    rlLine,         \* the line that readline returned
    rlSkipped,      \* server-initiated messages skipped, counted up to MaxCounted
    rlOutcome       \* how the loop ended

orchVars == <<profile, cfgApplicable, transportType, pc, transport, closeCalls,
              validators, idx, results, started, escaped, context, session,
              sessionErrors, failure, exitCode>>
sortVars == <<sortDecl, sortPc, sortPos, sortState>>
pipeVars == <<pipe, request_id, pending, unanswered, exchange, srvMsgs>>
closeVars == <<tr, trRaised, trCloses, trLog>>
protoVars == <<pvPc, pvResponse, pvNotifyOk, pvResult, pvContext>>
pingVars == <<pingPc, pingConfig, pingResponse, pingResult>>
malformedVars == <<mfPc, mfConfig, mfStdio, mfWriteOk, mfIncoming, mfPos, mfData,
                   mfWarnings>>
registryVars == <<regPc, regPackages, regPos, regErrors, regWarnings, regData, regResult>>
containerVars == <<ctPc, ctCommand, ctImageAt, ctEnv, ctDone, ctInjected, ctImage, ctExecuted, ctEnvUpdated, ctSessionArgs>>
maskVars == <<maskPc, maskKey, maskValue, maskOut>>
securityVars == <<secPc, secThreshold, secDiscovered, secScan, secResult>>
capabilitiesVars == <<capPc, capAdvertised, capMaxItems, capRequests, capErrors, capWarnings, capData, capResult>>
shutdownVars == <<scPc, scProc, scWaited, scLog, scExitedAt>>
dispatchVars == <<dpVia, dpOutcomes, dpResponse, dpRunning>>
oAuthVars == <<oaPc, oaCallback, oaPending, oaHandled, oaHandler, oaPolls, oaReturned>>
rewrittenVars == <<rwImage>>
configVars == <<cmPc, cmProfiles, cmActive, cmLast, cmCalls>>
createVars == <<crNames, crEnabled, crPc>>
readLoopVars == <<rlPc, rlElapsed, rlWaitLeft, rlBuffered, rlLine, rlSkipped, rlOutcome>>
vars == <<orchVars, sortVars, pipeVars,
          closeVars, protoVars, pingVars, malformedVars, registryVars, containerVars, maskVars, securityVars, capabilitiesVars, shutdownVars, dispatchVars, oAuthVars, rewrittenVars, configVars, createVars, readLoopVars>>

\* what the actions of one part leave alone
notOrch == <<sortVars, pipeVars, closeVars, protoVars,
    pingVars,
    malformedVars,
    registryVars,
    containerVars,
    maskVars,
    securityVars,
    capabilitiesVars,
    shutdownVars,
    dispatchVars,
    oAuthVars,
    rewrittenVars,
    configVars,
    createVars,
    readLoopVars>>
notSort == <<orchVars, pipeVars, closeVars, protoVars,
    pingVars,
    malformedVars,
    registryVars,
    containerVars,
    maskVars,
    securityVars,
    capabilitiesVars,
    shutdownVars,
    dispatchVars,
    oAuthVars,
    rewrittenVars,
    configVars,
    createVars,
    readLoopVars>>
notPipe == <<orchVars, sortVars, closeVars, protoVars,
    pingVars,
    malformedVars,
    registryVars,
    containerVars,
    maskVars,
    securityVars,
    capabilitiesVars,
    shutdownVars,
    dispatchVars,
    oAuthVars,
    rewrittenVars,
    configVars,
    createVars,
    readLoopVars>>
notClose == <<orchVars, sortVars, pipeVars, protoVars,
    pingVars,
    malformedVars,
    registryVars,
    containerVars,
    maskVars,
    securityVars,
    capabilitiesVars,
    shutdownVars,
    dispatchVars,
    oAuthVars,
    rewrittenVars,
    configVars,
    createVars,
    readLoopVars>>
notProto == <<orchVars, sortVars, pipeVars, closeVars,
    pingVars,
    malformedVars,
    registryVars,
    containerVars,
    maskVars,
    securityVars,
    capabilitiesVars,
    shutdownVars,
    dispatchVars,
    oAuthVars,
    rewrittenVars,
    configVars,
    createVars,
    readLoopVars>>
notPing == <<orchVars, sortVars, pipeVars, closeVars, protoVars,
    malformedVars,
    registryVars,
    containerVars,
    maskVars,
    securityVars,
    capabilitiesVars,
    shutdownVars,
    dispatchVars,
    oAuthVars,
    rewrittenVars,
    configVars,
    createVars,
    readLoopVars>>
notMalformed == <<orchVars, sortVars, pipeVars, closeVars, protoVars, pingVars,
    registryVars,
    containerVars,
    maskVars,
    securityVars,
    capabilitiesVars,
    shutdownVars,
    dispatchVars,
    oAuthVars,
    rewrittenVars,
    configVars,
    createVars,
    readLoopVars>>
notRegistry == <<orchVars, sortVars, pipeVars, closeVars, protoVars, pingVars, malformedVars,
    containerVars,
    maskVars,
    securityVars,
    capabilitiesVars,
    shutdownVars,
    dispatchVars,
    oAuthVars,
    rewrittenVars,
    configVars,
    createVars,
    readLoopVars>>
notContainer == <<orchVars, sortVars, pipeVars, closeVars, protoVars, pingVars, malformedVars, registryVars,
    maskVars,
    securityVars,
    capabilitiesVars,
    shutdownVars,
    dispatchVars,
    oAuthVars,
    rewrittenVars,
    configVars,
    createVars,
    readLoopVars>>
notMask == <<orchVars, sortVars, pipeVars, closeVars, protoVars, pingVars, malformedVars, registryVars, containerVars,
    securityVars,
    capabilitiesVars,
    shutdownVars,
    dispatchVars,
    oAuthVars,
    rewrittenVars,
    configVars,
    createVars,
    readLoopVars>>
notSecurity == <<orchVars, sortVars, pipeVars, closeVars, protoVars, pingVars, malformedVars, registryVars, containerVars, maskVars,
    capabilitiesVars,
    shutdownVars,
    dispatchVars,
    oAuthVars,
    rewrittenVars,
    configVars,
    createVars,
    readLoopVars>>
notCapabilities == <<orchVars, sortVars, pipeVars, closeVars, protoVars, pingVars, malformedVars, registryVars, containerVars, maskVars, securityVars,
    shutdownVars,
    dispatchVars,
    oAuthVars,
    rewrittenVars,
    configVars,
    createVars,
    readLoopVars>>
notShutdown == <<orchVars, sortVars, pipeVars, closeVars, protoVars, pingVars, malformedVars, registryVars, containerVars, maskVars, securityVars, capabilitiesVars,
    dispatchVars,
    oAuthVars,
    rewrittenVars,
    configVars,
    createVars,
    readLoopVars>>
notDispatch == <<orchVars, sortVars, pipeVars, closeVars, protoVars, pingVars, malformedVars, registryVars, containerVars, maskVars, securityVars, capabilitiesVars, shutdownVars,
    oAuthVars,
    rewrittenVars,
    configVars,
    createVars,
    readLoopVars>>
notOrchDispatch == <<sortVars, pipeVars, closeVars, protoVars, pingVars, malformedVars, registryVars, containerVars, maskVars, securityVars, capabilitiesVars, shutdownVars,
    oAuthVars,
    rewrittenVars,
    configVars,
    createVars,
    readLoopVars>>
notOAuth == <<orchVars, sortVars, pipeVars, closeVars, protoVars, pingVars, malformedVars, registryVars, containerVars, maskVars, securityVars, capabilitiesVars, shutdownVars, dispatchVars,
    rewrittenVars,
    configVars,
    createVars,
    readLoopVars>>
notRewritten == <<orchVars, sortVars, pipeVars, closeVars, protoVars, pingVars, malformedVars, registryVars, containerVars, maskVars, securityVars, capabilitiesVars, shutdownVars, dispatchVars, oAuthVars,
    configVars,
    createVars,
    readLoopVars>>
notContainerRewritten == <<orchVars, sortVars, pipeVars, closeVars, protoVars, pingVars, malformedVars, registryVars, maskVars, securityVars, capabilitiesVars, shutdownVars, dispatchVars, oAuthVars,
    configVars,
    createVars,
    readLoopVars>>
notConfig == <<orchVars, sortVars, pipeVars, closeVars, protoVars, pingVars, malformedVars, registryVars, containerVars, maskVars, securityVars, capabilitiesVars, shutdownVars, dispatchVars, oAuthVars, rewrittenVars,
    createVars,
    readLoopVars>>
notCreate == <<orchVars, sortVars, pipeVars, closeVars, protoVars, pingVars, malformedVars, registryVars, containerVars, maskVars, securityVars, capabilitiesVars, shutdownVars, dispatchVars, oAuthVars, rewrittenVars, configVars,
    readLoopVars>>
notSortCreate == <<orchVars, pipeVars, closeVars, protoVars, pingVars, malformedVars, registryVars, containerVars, maskVars, securityVars, capabilitiesVars, shutdownVars, dispatchVars, oAuthVars, rewrittenVars, configVars,
    readLoopVars>>
notReadLoop == <<orchVars, sortVars, pipeVars, closeVars, protoVars, pingVars, malformedVars, registryVars, containerVars, maskVars, securityVars, capabilitiesVars, shutdownVars, dispatchVars, oAuthVars, rewrittenVars, configVars, createVars>>

----------------------------------------------------------------------------
(* Bounds of the model *)

\* longest profile (number of enabled validators) the sort is run on
MaxDecl == 3
\* longest profile one CLI run is checked on
MaxRun == 3
\* requests sent on the stdio pipe
MaxRequests == 3
\* server-initiated messages (notifications / requests) on the pipe
MaxServerMsgs == 2
\* close() calls on one transport
MaxCloses == 4

----------------------------------------------------------------------------
(* Validators: names, declared dependencies *)

BuiltinValidators ==
    <<"repo_availability", "license", "runtime_exists", "runtime_executable",
      "container_ubi", "container_version", "protocol", "capabilities",
      "ping", "errors", "security", "registry">>

ValidatorNames == {BuiltinValidators[i] : i \in DOMAIN BuiltinValidators}

\* the `dependencies` property of each validator class
Dependencies(name) ==
    CASE name = "license"            -> <<"repo_availability">>
      [] name = "runtime_executable" -> <<"runtime_exists">>
      [] name = "container_ubi"      -> <<"runtime_exists">>
      [] name = "container_version"  -> <<"runtime_exists">>
      [] name = "capabilities"       -> <<"protocol">>
      [] name = "ping"               -> <<"protocol">>
      [] name = "errors"             -> <<"protocol">>
      [] name = "security"           -> <<"protocol">>
      [] OTHER                       -> <<>>

Range(s) == {s[i] : i \in DOMAIN s}

\* sequences without repetition over S, of length at most n
RECURSIVE DistinctSeqs(_, _)
DistinctSeqs(S, n) ==
    IF n = 0 THEN {<<>>}
    ELSE LET shorter == DistinctSeqs(S, n - 1)
         IN  shorter \cup
             UNION {{Append(s, x) : x \in S \ Range(s)} : s \in shorter}

IndexOf(s, x) == CHOOSE i \in DOMAIN s : s[i] = x

----------------------------------------------------------------------------
(* JSON values as far as the code looks at them: an object (a mapping from  *)
(* keys to values) or something that is not a mapping (null, a number).     *)

EmptyMap == [k \in {} |-> ""]
Obj(f) == [t |-> "obj", v |-> f]
EmptyObj == Obj(EmptyMap)
NonObj == [t |-> "other", v |-> EmptyMap]

\* dict.update(other): merges a mapping, raises on a value that is no mapping
DictUpdateRaises(other) == other.t # "obj"
DictUpdate(d, other) ==
    Obj([k \in DOMAIN d.v \cup DOMAIN other.v |->
            IF k \in DOMAIN other.v THEN other.v[k] ELSE d.v[k]])

\* bool(d) of a dict
Truthy(d) == d.t = "obj" /\ DOMAIN d.v # {}

\* an error message: what it says (kind) and the values it carries (detail)
Err(kind, detail) == [kind |-> kind, detail |-> detail]

\* a ValidationContext as validate_server creates it
FreshContext == [server_info |-> EmptyObj, capabilities |-> EmptyObj]

\* ValidatorResult.data of a validator that reports no server_info / capabilities
\* (what result.data.get(key, {}) yields for it)
NoData == [server_info |-> EmptyObj, capabilities |-> EmptyObj,
           protocol_version |-> "None"]

ValidatorResult(name, passed, errors, data) ==
    [validator_name |-> name, passed |-> passed, errors |-> errors, data |-> data]

----------------------------------------------------------------------------
(* ProtocolValidator *)

\* supported_versions in _test_initialize
SupportedVersions == <<"2024-11-05", "2025-03-26", "2025-06-18">>

\* required_fields in _test_initialize
RequiredFields == <<"protocolVersion", "capabilities", "serverInfo">>

\* the values a server may report
ReportedVersions == Range(SupportedVersions) \cup {"1.0.0"}
ServerInfoMap == [k \in {"name"} |-> "server"]
CapsMap == [k \in {"tools"} |-> "listChanged"]
ReportedServerInfo == {Obj(ServerInfoMap), NonObj}
ReportedCapabilities == {EmptyObj, Obj(CapsMap), NonObj}

\* the `result` member of a response: absent, not an object, or an object with
\* some of the three fields
NoResult == [shape |-> "absent", fields |-> {}, pv |-> "None",
             caps |-> EmptyObj, sinfo |-> EmptyObj]
\* `result` is JSON null: the first `field not in result` raises TypeError
NonObjResult == [shape |-> "other", fields |-> {}, pv |-> "None",
                 caps |-> EmptyObj, sinfo |-> EmptyObj]
ObjResults ==
    {[shape |-> "obj", fields |-> fs,
      pv |-> pv, caps |-> caps, sinfo |-> sinfo] :
        fs \in SUBSET Range(RequiredFields),
        pv \in ReportedVersions \cup {"None"},
        caps \in ReportedCapabilities,
        sinfo \in ReportedServerInfo \cup {EmptyObj}}

\* a result is well formed when an absent field carries the .get() default
WellFormedResult(r) ==
    /\ ("protocolVersion" \in r.fields) = (r.pv # "None")
    /\ "capabilities" \notin r.fields => r.caps = EmptyObj
    /\ "serverInfo" \notin r.fields => r.sinfo = EmptyObj
    /\ "serverInfo" \in r.fields => r.sinfo \in ReportedServerInfo

Results == {NoResult, NonObjResult} \cup {r \in ObjResults : WellFormedResult(r)}

\* what transport.send_and_receive("initialize") can yield
InitResponses ==
    {[kind |-> "timeout", hasError |-> FALSE, result |-> NoResult],
     [kind |-> "exception", hasError |-> FALSE, result |-> NoResult]}
    \cup {[kind |-> "message", hasError |-> e, result |-> r] :
            e \in BOOLEAN, r \in Results}

RECURSIVE MissingFieldErrors(_, _)
\* the loop over required_fields
MissingFieldErrors(fields, present) ==
    IF fields = <<>> THEN <<>>
    ELSE (IF Head(fields) \in present THEN <<>>
          ELSE <<Err("missing_field", <<Head(fields)>>)>>)
         \o MissingFieldErrors(Tail(fields), present)

\* mutant: the version check is left out
VersionErrorsNone(pv) == <<>>

\* the check `protocol_version not in supported_versions`
VersionErrors(pv) ==
    IF pv \in Range(SupportedVersions) THEN <<>>
    ELSE <<Err("unsupported_version", <<pv>> \o SupportedVersions)>>

\* _test_initialize: [ok, errors, data]
test_initialize(response) ==
    LET r == response.result
        fail(e) == [ok |-> FALSE, errors |-> <<e>>, data |-> NoData]
    IN  CASE response.kind = "timeout" -> fail(Err("initialize_timed_out", <<>>))
          [] response.kind = "exception" -> fail(Err("initialize_failed", <<"exception">>))
          [] response.hasError -> fail(Err("initialize_failed", <<"error_response">>))
          [] r.shape = "absent" -> fail(Err("missing_result", <<>>))
          [] r.shape = "other" -> fail(Err("initialize_failed", <<"exception">>))
          [] OTHER ->
                LET errors == MissingFieldErrors(RequiredFields, r.fields)
                              \o VersionErrors(r.pv)
                IN  [ok |-> errors = <<>>,
                     errors |-> errors,
                     data |-> [server_info |-> r.sinfo,
                               capabilities |-> r.caps,
                               protocol_version |-> r.pv]]

\* _send_initialized: the errors it appends
send_initialized(notifyOk) ==
    IF notifyOk THEN <<>> ELSE <<Err("initialized_notification_failed", <<>>)>>

\* two dict.update calls in a row, server_info then capabilities:
\* [raised, context]; the first update stands when the second raises
UpdateBoth(ctx, sinfo, caps) ==
    IF DictUpdateRaises(sinfo) THEN [raised |-> TRUE, context |-> ctx]
    ELSE LET c1 == [ctx EXCEPT !.server_info = DictUpdate(ctx.server_info, sinfo)]
         IN  IF DictUpdateRaises(caps) THEN [raised |-> TRUE, context |-> c1]
             ELSE [raised |-> FALSE,
                   context |-> [c1 EXCEPT !.capabilities =
                                   DictUpdate(c1.capabilities, caps)]]

\* mutant: the validator does not store what it discovered in the context
StoreDiscoveredSkipped(ctx, data) == [raised |-> FALSE, context |-> ctx]

\* validate: context.server_info.update(data["server_info"]);
\*           context.capabilities.update(data["capabilities"])
StoreDiscovered(ctx, data) == UpdateBoth(ctx, data.server_info, data.capabilities)

\* ProtocolValidator.validate: [result, context]
ProtocolValidate(ctx, response, notifyOk) ==
    LET t == test_initialize(response)
    IN  IF ~t.ok
        THEN [result |-> ValidatorResult("protocol", FALSE, t.errors, t.data),
              context |-> ctx]
        ELSE LET e1 == t.errors \o send_initialized(notifyOk)
                 u == StoreDiscovered(ctx, t.data)
                 e2 == IF u.raised
                       THEN Append(e1, Err("protocol_validation_failed", <<>>))
                       ELSE e1
             IN  [result |-> ValidatorResult("protocol", e2 = <<>>, e2, t.data),
                  context |-> u.context]

----------------------------------------------------------------------------
(* _sort_validators_by_dependencies *)

\* repo_validators, runtime_validators, container_validators, in loop order
PriorityNames ==
    <<"repo_availability", "license", "runtime_exists", "runtime_executable",
      "container_ubi", "container_version">>

RECURSIVE process_validator_pre(_, _, _)
RECURSIVE ProcessDepsPre(_, _, _)
\* mutant: the validator is appended before its dependencies are processed
process_validator_pre(name, present, st) ==
    IF name \in st.processed THEN st
    ELSE ProcessDepsPre(Dependencies(name), present,
            [sorted |-> Append(st.sorted, name),
             processed |-> st.processed \cup {name}])
ProcessDepsPre(deps, present, st) ==
    IF deps = <<>> THEN st
    ELSE ProcessDepsPre(Tail(deps), present,
            IF Head(deps) \in present
            THEN process_validator_pre(Head(deps), present, st)
            ELSE st)

RECURSIVE process_validator(_, _, _)
RECURSIVE ProcessDeps(_, _, _)
\* the inner function process_validator: dependencies first, then the validator
process_validator(name, present, st) ==
    IF name \in st.processed THEN st
    ELSE LET st1 == ProcessDeps(Dependencies(name), present, st)
         IN  [sorted |-> Append(st1.sorted, name),
              processed |-> st1.processed \cup {name}]
RECURSIVE ProcessDepsPulledIn(_, _, _)
\* mutant: a dependency is followed whether or not it is in validator_map
ProcessDepsPulledIn(deps, present, st) ==
    IF deps = <<>> THEN st
    ELSE ProcessDepsPulledIn(Tail(deps), present,
            process_validator(Head(deps), present, st))

\* the loop over validator.dependencies: only names in validator_map are followed
ProcessDeps(deps, present, st) ==
    IF deps = <<>> THEN st
    ELSE ProcessDeps(Tail(deps), present,
            IF Head(deps) \in present
            THEN process_validator(Head(deps), present, st)
            ELSE st)

EmptySort == [sorted |-> <<>>, processed |-> {}]

RECURSIVE ProcessAll(_, _, _)
\* a for-loop calling process_validator on each name of `names` that is in validator_map
ProcessAll(names, present, st) ==
    IF names = <<>> THEN st
    ELSE ProcessAll(Tail(names), present,
            IF Head(names) \in present
            THEN process_validator(Head(names), present, st)
            ELSE st)

\* the function without its three priority loops
SortValidatorsAsDeclared(decl) ==
    ProcessAll(decl, Range(decl), EmptySort).sorted

\* the whole function: the three priority loops, then all validators as declared
SortValidators(decl) ==
    ProcessAll(decl, Range(decl),
               ProcessAll(PriorityNames, Range(decl), EmptySort)).sorted

----------------------------------------------------------------------------
(* Transports: StdioTransport, HTTPTransport, SSETransport *)

TransportKinds == {"stdio", "http", "sse"}

\* a transport object. stdio: `running` is process.returncode is None;
\* http / sse: which of
\* _session_context, _connection_context, _client_session and the streams
\* are set, and _initialized
NewTransport(kind) ==
    [kind |-> kind,
     running |-> kind = "stdio",
     session_context |-> FALSE,
     connection_context |-> FALSE,
     client_session |-> FALSE,
     streams |-> FALSE,
     initialized |-> FALSE]

NoTransport == [NewTransport("none") EXCEPT !.kind = "none"]

\* HTTPTransport.initialize / SSETransport.initialize, by how far it got:
\* "connect" fails entering the connection, "session" fails creating or
\* initializing the ClientSession (both clean up and raise), "ok" succeeds
InitializeOutcomes == {"connect", "session", "ok"}

initialize(t, outcome) ==
    IF t.initialized THEN t
    ELSE CASE outcome = "connect" ->
                [t EXCEPT !.connection_context = FALSE]
           [] outcome = "session" ->
                [t EXCEPT !.streams = TRUE, !.session_context = FALSE,
                          !.client_session = FALSE, !.connection_context = FALSE]
           [] OTHER ->
                [t EXCEPT !.streams = TRUE, !.session_context = TRUE,
                          !.client_session = TRUE, !.connection_context = TRUE,
                          !.initialized = TRUE]

\* what the environment decides during one close(): whether stdin.close()
\* raises, whether the process exits within the 5 s wait, whether the two
\* __aexit__ calls raise
CloseChoices ==
    [stdinRaises : BOOLEAN, exitsInTime : BOOLEAN,
     sessionExitRaises : BOOLEAN, connectionExitRaises : BOOLEAN]

\* mutant: StdioTransport.close without the `returncode is None` guard
CloseStdioUnguarded(t, c) ==
    [tr |-> [t EXCEPT !.running = FALSE],
     log |-> <<"stdin.close", "terminate", "wait">>
             \o (IF c.exitsInTime THEN <<>> ELSE <<"kill", "wait">>),
     raised |-> FALSE]

\* StdioTransport.close: [tr, log, raised]
CloseStdio(t, c) ==
    IF t.running
    THEN [tr |-> [t EXCEPT !.running = FALSE],
          log |-> <<IF c.stdinRaises THEN "stdin.close!" ELSE "stdin.close",
                    "terminate", "wait">>
                  \o (IF c.exitsInTime THEN <<>> ELSE <<"kill", "wait">>),
          raised |-> FALSE]
    ELSE [tr |-> t, log |-> <<>>, raised |-> FALSE]

\* HTTPTransport.close and SSETransport.close: [tr, log, raised]; an
\* exception of __aexit__ is logged and swallowed
CloseSession(t, c) ==
    [tr |-> [t EXCEPT !.session_context = FALSE,
                      !.client_session = IF t.session_context THEN FALSE ELSE @,
                      !.connection_context = FALSE,
                      !.streams = FALSE,
                      !.initialized = FALSE],
     log |-> (IF t.session_context THEN <<"session.__aexit__">> ELSE <<>>)
             \o (IF t.connection_context THEN <<"connection.__aexit__">> ELSE <<>>),
     raised |-> FALSE]

\* transport.close()
Close(t, c) ==
    IF t.kind = "stdio" THEN CloseStdio(t, c) ELSE CloseSession(t, c)

\* the transport holds no resource any more
Closed(t) ==
    IF t.kind = "stdio" THEN ~t.running
    ELSE /\ ~t.session_context /\ ~t.connection_context
         /\ ~t.client_session /\ ~t.streams /\ ~t.initialized

----------------------------------------------------------------------------
(* SpecClose: the three transports under initialize, process exit and close *)

CloseInit ==
    /\ tr \in {NewTransport(k) : k \in TransportKinds}
    /\ trRaised = FALSE
    /\ trCloses = 0
    /\ trLog = <<>>

CloseIdle ==
    /\ tr = NoTransport
    /\ trRaised = FALSE
    /\ trCloses = 0
    /\ trLog = <<>>

\* the connection of an http / sse transport is opened (or fails to open)
TrInitialize ==
    /\ tr.kind \in {"http", "sse"}
    /\ ~tr.initialized
    /\ \E outcome \in InitializeOutcomes :
          /\ tr' = initialize(tr, outcome)
          /\ trRaised' = (outcome # "ok")
    /\ UNCHANGED <<trCloses, trLog, notClose>>

\* the server subprocess exits by itself and asyncio records its return code
TrProcessExits ==
    /\ tr.kind = "stdio"
    /\ tr.running
    /\ tr' = [tr EXCEPT !.running = FALSE]
    /\ trRaised' = FALSE
    /\ UNCHANGED <<trCloses, trLog, notClose>>

\* await transport.close()
TrClose ==
    /\ trCloses < MaxCloses
    /\ \E c \in CloseChoices :
          LET out == Close(tr, c)
          IN  /\ tr' = out.tr
              /\ trLog' = trLog \o out.log
              /\ trRaised' = out.raised
    /\ trCloses' = trCloses + 1
    /\ UNCHANGED notClose

CloseNext == TrInitialize \/ TrProcessExits \/ TrClose

----------------------------------------------------------------------------
(* C8: close() is idempotent *)

----------------------------------------------------------------------------
(* SpecStdio: send_and_receive on the pipes of the server subprocess *)

\* a line on the server's stdout, as parse_response decodes it: a response
\* carries the id of the request it answers; a server-initiated message
\* (notification or request) carries a method and no such id
Response(id) == [type |-> "response", id |-> id]
ServerMessage == [type |-> "server_message", id |-> 0]
NoMessage == [type |-> "none", id |-> 0]

\* _get_next_id
get_next_id(rid) == rid + 1

\* mutant: the line returned stays in the read buffer
read_response_keep(lines) == [msg |-> Head(lines), rest |-> lines]

\* read_response on a non-empty buffer: the oldest line, parsed
read_response(lines) == [msg |-> Head(lines), rest |-> Tail(lines)]

StdioInit ==
    /\ pipe = <<>>
    /\ request_id = 0
    /\ pending = {}
    /\ unanswered = {}
    /\ exchange = [id |-> 0, outcome |-> "none", msg |-> NoMessage]
    /\ srvMsgs = 0

StdioIdle ==
    /\ pipe = <<>>
    /\ request_id = -1
    /\ pending = {}
    /\ unanswered = {}
    /\ exchange = [id |-> 0, outcome |-> "off", msg |-> NoMessage]
    /\ srvMsgs = 0

\* send_and_receive, first half: await self.send_request(method, params)
SendRequest ==
    /\ exchange.outcome \in {"none", "returned", "timeout"}
    /\ request_id < MaxRequests
    /\ request_id' = get_next_id(request_id)
    /\ pending' = pending \cup {request_id'}
    /\ exchange' = [id |-> request_id', outcome |-> "sent", msg |-> NoMessage]
    /\ UNCHANGED <<pipe, unanswered, srvMsgs, notPipe>>

\* send_and_receive, second half: read_response returns the next line
ReadResponse ==
    /\ exchange.outcome = "sent"
    /\ pipe # <<>>
    /\ LET r == read_response(pipe)
       IN  /\ exchange' = [exchange EXCEPT !.outcome = "returned", !.msg = r.msg]
           /\ pipe' = r.rest
    /\ UNCHANGED <<request_id, pending, unanswered, srvMsgs, notPipe>>

\* send_and_receive, second half: no line within the timeout
ReadTimeout ==
    /\ exchange.outcome = "sent"
    /\ pipe = <<>>
    /\ exchange' = [exchange EXCEPT !.outcome = "timeout"]
    /\ unanswered' = unanswered \cup {exchange.id}
    /\ UNCHANGED <<pipe, request_id, pending, srvMsgs, notPipe>>

\* the server answers a request it has received
ServerReplies ==
    /\ \E id \in pending :
          /\ pipe' = Append(pipe, Response(id))
          /\ pending' = pending \ {id}
    /\ UNCHANGED <<request_id, unanswered, exchange, srvMsgs, notPipe>>

\* the server writes a notification or a request of its own
ServerEmits ==
    /\ srvMsgs < MaxServerMsgs
    /\ pipe' = Append(pipe, ServerMessage)
    /\ srvMsgs' = srvMsgs + 1
    /\ UNCHANGED <<request_id, pending, unanswered, exchange, notPipe>>

StdioNext ==
    SendRequest \/ ReadResponse \/ ReadTimeout \/ ServerReplies \/ ServerEmits

----------------------------------------------------------------------------
(* C7: which message send_and_receive returns *)

\* C7 as claimed: whatever the server has written, the message returned
\* answers the request just sent.
C7_AsClaimed ==
    exchange.outcome = "returned" => exchange.msg = Response(exchange.id)

\* C7, amended: the message returned is the oldest unread line of the pipe; it
\* is the response to the request just sent provided the server has written no
\* message of its own and no earlier read has timed out.
C7_CorrelatedWhenInterleaved ==
    (exchange.outcome = "returned" /\ srvMsgs = 0 /\ unanswered = {})
        => exchange.msg = Response(exchange.id)

\* a second request has been answered on a strictly interleaved pipe
C7_Witness ==
    /\ exchange.outcome = "returned"
    /\ exchange.id >= 2
    /\ srvMsgs = 0
    /\ unanswered = {}
    /\ exchange.msg = Response(exchange.id)

----------------------------------------------------------------------------
(* SpecSort: the sort, one loop iteration per step *)

SortInit ==
    /\ sortDecl \in DistinctSeqs(ValidatorNames, MaxDecl)
    /\ sortPc = "priority"
    /\ sortPos = 1
    /\ sortState = EmptySort

SortIdle ==
    /\ sortDecl = <<>>
    /\ sortPc = "idle"
    /\ sortPos = 0
    /\ sortState = EmptySort

\* one iteration of the loops over repo_validators, runtime_validators,
\* container_validators
SortPriorityStep ==
    /\ sortPc = "priority"
    /\ sortPos <= Len(PriorityNames)
    /\ sortState' = IF PriorityNames[sortPos] \in Range(sortDecl)
                    THEN process_validator(PriorityNames[sortPos],
                                           Range(sortDecl), sortState)
                    ELSE sortState
    /\ IF sortPos = Len(PriorityNames)
       THEN sortPc' = "remaining" /\ sortPos' = 1
       ELSE sortPc' = sortPc /\ sortPos' = sortPos + 1
    /\ UNCHANGED <<sortDecl, notSort>>

\* one iteration of `for validator in validators`
SortRemainingStep ==
    /\ sortPc = "remaining"
    /\ sortPos <= Len(sortDecl)
    /\ sortState' = process_validator(sortDecl[sortPos], Range(sortDecl), sortState)
    /\ sortPos' = sortPos + 1
    /\ UNCHANGED <<sortDecl, sortPc, notSort>>

\* return sorted_validators
SortReturn ==
    /\ sortPc = "remaining"
    /\ sortPos > Len(sortDecl)
    /\ sortPc' = "done"
    /\ UNCHANGED <<sortDecl, sortPos, sortState, notSort>>

SortNext == SortPriorityStep \/ SortRemainingStep \/ SortReturn

----------------------------------------------------------------------------
(* C6: the ordering of the sorted list *)

\* the place of a validator in the claimed order: repo_availability, license,
\* the runtime validators, the container validators, all the others
OrderGroup(name) ==
    CASE name = "repo_availability"                          -> 1
      [] name = "license"                                    -> 2
      [] name \in {"runtime_exists", "runtime_executable"}   -> 3
      [] name \in {"container_ubi", "container_version"}     -> 4
      [] OTHER                                               -> 5

SortedPos(name) == IndexOf(sortState.sorted, name)

\* C6: when the sort returns, every enabled validator of an earlier group
\* (repo_availability, license, runtime_*, container_*, the rest) stands before
\* every enabled validator of a later group, and among the rest every declared
\* dependency that is enabled stands before its dependent.
C6_OrderingInvariant ==
    sortPc = "done" =>
        \A a, b \in Range(sortDecl) :
            /\ a \in Range(sortState.sorted)
            /\ b \in Range(sortState.sorted)
            /\ OrderGroup(a) < OrderGroup(b) => SortedPos(a) < SortedPos(b)
            /\ (OrderGroup(b) = 5 /\ a \in Range(Dependencies(b)))
                   => SortedPos(a) < SortedPos(b)

\* a profile that declares a dependent before its dependency and a later group
\* before an earlier one has been sorted
C6_Witness ==
    /\ sortPc = "done"
    /\ \E i, j \in DOMAIN sortDecl :
          /\ i < j
          /\ OrderGroup(sortDecl[j]) < OrderGroup(sortDecl[i])
    /\ \E i, j \in DOMAIN sortDecl :
          /\ i < j
          /\ OrderGroup(sortDecl[i]) = 5
          /\ sortDecl[j] \in Range(Dependencies(sortDecl[i]))

----------------------------------------------------------------------------
(* SpecProtocol: ProtocolValidator.validate on a fresh context *)

NoValidatorResult == ValidatorResult("none", FALSE, <<>>, NoData)

ProtoInit ==
    /\ pvPc = "idle"
    /\ pvResponse \in InitResponses
    /\ pvNotifyOk \in BOOLEAN
    /\ pvResult = NoValidatorResult
    /\ pvContext = FreshContext

ProtoIdle ==
    /\ pvPc = "off"
    /\ pvResponse = [kind |-> "timeout", hasError |-> FALSE, result |-> NoResult]
    /\ pvNotifyOk = TRUE
    /\ pvResult = NoValidatorResult
    /\ pvContext = FreshContext

\* await validator.validate(context)
PvValidate ==
    /\ pvPc = "idle"
    /\ LET out == ProtocolValidate(pvContext, pvResponse, pvNotifyOk)
       IN  /\ pvResult' = out.result
           /\ pvContext' = out.context
    /\ pvPc' = "done"
    /\ UNCHANGED <<pvResponse, pvNotifyOk, notProto>>

ProtoNext == PvValidate

----------------------------------------------------------------------------
(* C9, C10: the handshake *)

\* the response is a result object with a supported protocolVersion, a
\* serverInfo object and a capabilities object, and carries no error member
GoodHandshake(response) ==
    /\ response.kind = "message"
    /\ ~response.hasError
    /\ response.result.shape = "obj"
    /\ response.result.fields = Range(RequiredFields)
    /\ response.result.pv \in {"2024-11-05", "2025-03-26", "2025-06-18"}
    /\ response.result.sinfo.t = "obj"
    /\ response.result.caps.t = "obj"

HandshakeAccepted ==
    /\ pvResult.passed
    /\ pvContext.capabilities = pvResponse.result.caps
    /\ pvContext.server_info = pvResponse.result.sinfo

\* C9 as claimed: a good initialize response alone makes the validator pass and
\* fills the context.
C9_AsClaimed ==
    (pvPc = "done" /\ GoodHandshake(pvResponse)) => HandshakeAccepted

\* C9, amended: after a good initialize response and a successfully sent
\* notifications/initialized, the validator has passed and the context's
\* capabilities and server_info equal those of the response; the context is
\* filled also when sending the notification failed.
C9_HandshakeAcceptance ==
    (pvPc = "done" /\ GoodHandshake(pvResponse)) =>
        /\ pvResult.passed = pvNotifyOk
        /\ pvContext.capabilities = pvResponse.result.caps
        /\ pvContext.server_info = pvResponse.result.sinfo

C9_Witness ==
    /\ pvPc = "done"
    /\ GoodHandshake(pvResponse)
    /\ pvNotifyOk
    /\ pvResponse.result.pv = "2025-06-18"
    /\ pvResponse.result.caps = Obj(CapsMap)
    /\ pvResult.passed

\* the response is one the claim says must be rejected
BadHandshake(response) ==
    \/ response.kind = "timeout"
    \/ /\ response.kind = "message"
       /\ \/ response.hasError
          \/ response.result.shape = "absent"
          \/ /\ response.result.shape = "obj"
             /\ \/ response.result.fields # Range(RequiredFields)
                \/ response.result.pv \notin {"2024-11-05", "2025-03-26", "2025-06-18"}

\* the response is a result object reporting a version outside the accepted ones
UnsupportedVersion(response) ==
    /\ response.kind = "message"
    /\ ~response.hasError
    /\ response.result.shape = "obj"
    /\ "protocolVersion" \in response.result.fields
    /\ response.result.pv \notin {"2024-11-05", "2025-03-26", "2025-06-18"}

\* C10: a response that carries an error, lacks a result or one of the three
\* fields, timed out or reports an unsupported version yields passed=false
\* with at least one error; for an unsupported version one error carries that
\* version and the three accepted versions.
C10_HandshakeRejection ==
    pvPc = "done" =>
        /\ BadHandshake(pvResponse) =>
              (~pvResult.passed /\ Len(pvResult.errors) >= 1)
        /\ UnsupportedVersion(pvResponse) =>
              \E i \in DOMAIN pvResult.errors :
                  /\ pvResult.errors[i].kind = "unsupported_version"
                  /\ pvResult.errors[i].detail =
                        <<pvResponse.result.pv,
                          "2024-11-05", "2025-03-26", "2025-06-18">>

C10_Witness ==
    /\ pvPc = "done"
    /\ UnsupportedVersion(pvResponse)
    /\ pvResponse.result.fields = Range(RequiredFields)
    /\ pvResponse.result.pv = "1.0.0"
    /\ ~pvResult.passed
    /\ Len(pvResult.errors) = 1

----------------------------------------------------------------------------
(* The specifications *)

PingIdle ==
    /\ pingPc = "off"
    /\ pingConfig = "none"
    /\ pingResponse = "none"
    /\ pingResult = "none"

MalformedIdle ==
    /\ mfPc = "off"
    /\ mfConfig = "none"
    /\ mfStdio = FALSE
    /\ mfWriteOk = FALSE
    /\ mfIncoming = <<>>
    /\ mfPos = 1
    /\ mfData = "none"
    /\ mfWarnings = <<>>

RegistryIdle ==
    /\ regPc = "off"
    /\ regPackages = <<>>
    /\ regPos = 1
    /\ regErrors = <<>>
    /\ regWarnings = <<>>
    /\ regData = "none"
    /\ regResult = "none"

ContainerIdle ==
    /\ ctPc = "off"
    /\ ctCommand = <<>>
    /\ ctImageAt = 0
    /\ ctEnv = <<>>
    /\ ctDone = {}
    /\ ctInjected = <<>>
    /\ ctImage = [present |-> FALSE, value |-> ""]
    /\ ctExecuted = <<>>
    /\ ctEnvUpdated = FALSE
    /\ ctSessionArgs = <<>>

MaskIdle ==
    /\ maskPc = "off"
    /\ maskKey = <<>>
    /\ maskValue = <<>>
    /\ maskOut = <<>>

SecurityIdle ==
    /\ secPc = "off"
    /\ secThreshold = "high"
    /\ secDiscovered = 0
    /\ secScan = [kind |-> "unavailable", results |-> <<>>]
    /\ secResult = "none"

CapabilitiesIdle ==
    /\ capPc = "off"
    /\ capAdvertised = {}
    /\ capMaxItems = 100
    /\ capRequests = <<>>
    /\ capErrors = <<>>
    /\ capWarnings = <<>>
    /\ capData = [resources |-> <<>>, tools |-> <<>>, prompts |-> <<>>, tested_capabilities |-> <<>>]
    /\ capResult = "none"

ShutdownIdle ==
    /\ scPc = "off"
    /\ scProc = "reaped"
    /\ scWaited = 0
    /\ scLog = <<>>
    /\ scExitedAt = "before"

DispatchIdle ==
    /\ dpVia = <<>>
    /\ dpOutcomes = <<>>
    /\ dpResponse = "none"
    /\ dpRunning = {}

OAuthIdle ==
    /\ oaPc = "off"
    /\ oaCallback = [authorization_code |-> "None", state |-> "None", error |-> "None"]
    /\ oaPending = <<>>
    /\ oaHandled = <<>>
    /\ oaHandler = "idle"
    /\ oaPolls = 0
    /\ oaReturned = [authorization_code |-> "None", state |-> "None"]

RewrittenIdle ==
    /\ rwImage = [present |-> FALSE, value |-> ""]

ConfigIdle ==
    /\ cmPc = "off"
    /\ cmProfiles = {}
    /\ cmActive = ""
    /\ cmLast = [op |-> "", arg |-> "", raised |-> "", before |-> ""]
    /\ cmCalls = 0

CreateIdle ==
    /\ crNames = <<>>
    /\ crEnabled = {}
    /\ crPc = "off"

ReadLoopIdle ==
    /\ rlPc = "off"
    /\ rlElapsed = 0
    /\ rlWaitLeft = 0
    /\ rlBuffered = <<>>
    /\ rlLine = "none"
    /\ rlSkipped = 0
    /\ rlOutcome = "none"

OrchIdle ==
    /\ profile = [decl |-> <<>>, required |-> <<>>,
                  continue_on_failure |-> TRUE, parallel_execution |-> FALSE]
    /\ cfgApplicable = <<>>
    /\ transportType = "stdio"
    /\ pc = "off"
    /\ transport = NoTransport
    /\ closeCalls = 0
    /\ validators = <<>>
    /\ idx = 0
    /\ results = <<>>
    /\ started = <<>>
    /\ escaped = <<>>
    /\ context = FreshContext
    /\ session = [returned |-> FALSE, overall_success |-> FALSE,
                  validator_results |-> <<>>, errors |-> <<>>]
    /\ sessionErrors = <<>>
    /\ failure = "none"
    /\ exitCode = -1

InitSort ==
    /\ SortInit
    /\ OrchIdle
    /\ StdioIdle
    /\ CloseIdle
    /\ ProtoIdle
    /\ PingIdle
    /\ MalformedIdle
    /\ RegistryIdle
    /\ ContainerIdle
    /\ MaskIdle
    /\ SecurityIdle
    /\ CapabilitiesIdle
    /\ ShutdownIdle
    /\ DispatchIdle
    /\ OAuthIdle
    /\ RewrittenIdle
    /\ ConfigIdle
    /\ CreateIdle
    /\ ReadLoopIdle
SpecSort == InitSort /\ [][SortNext]_vars

InitStdio ==
    /\ StdioInit
    /\ OrchIdle
    /\ SortIdle
    /\ CloseIdle
    /\ ProtoIdle
    /\ PingIdle
    /\ MalformedIdle
    /\ RegistryIdle
    /\ ContainerIdle
    /\ MaskIdle
    /\ SecurityIdle
    /\ CapabilitiesIdle
    /\ ShutdownIdle
    /\ DispatchIdle
    /\ OAuthIdle
    /\ RewrittenIdle
    /\ ConfigIdle
    /\ CreateIdle
    /\ ReadLoopIdle
SpecStdio == InitStdio /\ [][StdioNext]_vars

InitClose ==
    /\ CloseInit
    /\ OrchIdle
    /\ SortIdle
    /\ StdioIdle
    /\ ProtoIdle
    /\ PingIdle
    /\ MalformedIdle
    /\ RegistryIdle
    /\ ContainerIdle
    /\ MaskIdle
    /\ SecurityIdle
    /\ CapabilitiesIdle
    /\ ShutdownIdle
    /\ DispatchIdle
    /\ OAuthIdle
    /\ RewrittenIdle
    /\ ConfigIdle
    /\ CreateIdle
    /\ ReadLoopIdle
SpecClose == InitClose /\ [][CloseNext]_vars

InitProtocol ==
    /\ ProtoInit
    /\ OrchIdle
    /\ SortIdle
    /\ StdioIdle
    /\ CloseIdle
    /\ PingIdle
    /\ MalformedIdle
    /\ RegistryIdle
    /\ ContainerIdle
    /\ MaskIdle
    /\ SecurityIdle
    /\ CapabilitiesIdle
    /\ ShutdownIdle
    /\ DispatchIdle
    /\ OAuthIdle
    /\ RewrittenIdle
    /\ ConfigIdle
    /\ CreateIdle
    /\ ReadLoopIdle
SpecProtocol == InitProtocol /\ [][ProtoNext]_vars


----------------------------------------------------------------------------
(* MCPValidationOrchestrator.validate_server and the CLI's main() *)

\* the validators a checked profile may enable
ProfileValidators == {"protocol", "capabilities", "ping", "registry"}

\* validators whose is_applicable needs a configuration value or a tool
\* besides `enabled`; the others are applicable whenever enabled
ConfigGated ==
    {"repo_availability", "license", "runtime_exists", "runtime_executable",
     "container_ubi", "container_version", "security", "registry"}

\* the profiles: declaration order, `required` of each validator,
\* continue_on_failure, parallel_execution
Profiles ==
    UNION {{[decl |-> d, required |-> r,
             continue_on_failure |-> c, parallel_execution |-> p] :
               r \in [Range(d) -> BOOLEAN], c \in BOOLEAN, p \in BOOLEAN} :
           d \in DistinctSeqs(ProfileValidators, MaxRun)}

\* the initialize responses a server gives in a checked run
SessionResponses ==
    LET msg(pv, caps, sinfo) ==
            [kind |-> "message", hasError |-> FALSE,
             result |-> [shape |-> "obj", fields |-> Range(RequiredFields),
                         pv |-> pv, caps |-> caps, sinfo |-> sinfo]]
    IN  {[kind |-> "timeout", hasError |-> FALSE, result |-> NoResult],
         [kind |-> "message", hasError |-> TRUE, result |-> NoResult],
         msg("2025-06-18", Obj(CapsMap), Obj(ServerInfoMap)),
         msg("2025-06-18", EmptyObj, Obj(ServerInfoMap)),
         msg("1.0.0", Obj(CapsMap), Obj(ServerInfoMap)),
         msg("2025-06-18", Obj(CapsMap), NonObj)}

\* what validate() of a validator other than protocol can do
ValidateOutcomes == {"pass", "fail", "raise"}

\* BaseValidator.is_applicable and its overrides
is_applicable(name, ctx) ==
    /\ cfgApplicable[name]
    /\ name = "capabilities" => Truthy(ctx.capabilities)

\* data={} of the result built for an exception
EmptyData == [keys |-> {}]

\* mutant: the result built for an exception carries no error entry
ErrorResultSilent(name, msg) == ValidatorResult(name, FALSE, <<>>, EmptyData)

\* the except branch of the loop: the result built for an exception
ErrorResult(name, msg) ==
    ValidatorResult(name, FALSE, <<Err("execution_failed", <<msg>>)>>, EmptyData)

\* the orchestrator's context update after the protocol validator returned
UpdateContextFromProtocol(ctx, result) ==
    UpdateBoth(ctx, result.data.server_info, result.data.capabilities)

\* the break in the except branch
BreakOnException(prof, name) ==
    ~prof.continue_on_failure /\ prof.required[name]

\* mutant: the break after a failed result is left out
BreakOnFailureNever(prof, name, result) == FALSE

\* the break after a returned result
BreakOnFailure(prof, name, result) ==
    ~prof.continue_on_failure /\ prof.required[name] /\ ~result.passed

\* one iteration of the loop for an applicable validator: out is what
\* validate() did, [raised, msg, result, context]
ExecuteStep(prof, name, out, res) ==
    IF out.raised
    THEN [results |-> Append(res, ErrorResult(name, out.msg)),
          context |-> out.context,
          stop |-> BreakOnException(prof, name)]
    ELSE LET r1 == Append(res, out.result)
             post == IF name = "protocol"
                     THEN UpdateContextFromProtocol(out.context, out.result)
                     ELSE [raised |-> FALSE, context |-> out.context]
         IN  IF post.raised
             THEN [results |-> Append(r1, ErrorResult(name, "update")),
                   context |-> post.context,
                   stop |-> BreakOnException(prof, name)]
             ELSE [results |-> r1,
                   context |-> post.context,
                   stop |-> BreakOnFailure(prof, name, out.result)]

\* mutant: a required validator without a passed result fails the session
determine_overall_success_all_required(res, prof) ==
    \A n \in DOMAIN prof.required :
        prof.required[n] =>
            \E i \in DOMAIN res : res[i].validator_name = n /\ res[i].passed

\* mutant: every failed result counts, required or not
determine_overall_success_strict(res, prof) ==
    \A i \in DOMAIN res : res[i].passed

RECURSIVE determine_overall_success(_, _)
\* _determine_overall_success: the loop returns False at the first failed
\* result of a validator the profile marks required
determine_overall_success(res, prof) ==
    IF res = <<>> THEN TRUE
    ELSE LET result == Head(res)
         IN  IF /\ result.validator_name \in DOMAIN prof.required
                /\ prof.required[result.validator_name]
                /\ ~result.passed
             THEN FALSE
             ELSE determine_overall_success(Tail(res), prof)

\* mutant: the finally block does not close the transport
finally_close_skipped(t, calls, c) == [transport |-> t, closeCalls |-> calls]

\* the finally block of validate_server: close the transport if one was created
finally_close(t, calls, c) ==
    IF t # NoTransport
    THEN [transport |-> Close(t, c).tr, closeCalls |-> calls + 1]
    ELSE [transport |-> t, closeCalls |-> calls]

----------------------------------------------------------------------------
(* One CLI run: main() -> validate_server -> exit code *)

OrchInit ==
    /\ profile \in Profiles
    /\ cfgApplicable \in [Range(profile.decl) -> BOOLEAN]
    /\ \A n \in Range(profile.decl) \ ConfigGated : cfgApplicable[n]
    /\ transportType \in {"stdio", "http"}
    /\ pc = "main"
    /\ transport = NoTransport
    /\ closeCalls = 0
    /\ validators = <<>>
    /\ idx = 0
    /\ results = <<>>
    /\ started = <<>>
    /\ escaped = <<>>
    /\ context = FreshContext
    /\ session = [returned |-> FALSE, overall_success |-> FALSE,
                  validator_results |-> <<>>, errors |-> <<>>]
    /\ sessionErrors = <<>>
    /\ failure = "none"
    /\ exitCode = -1

\* main: a ValueError before the session exists (configuration file, profile
\* name, KEY=VALUE arguments) is reported and the exit code is 1
MainConfigError ==
    /\ pc = "main"
    /\ failure' = "config"
    /\ exitCode' = 1
    /\ pc' = "exited"
    /\ UNCHANGED <<profile, cfgApplicable, transportType, transport, closeCalls,
                   validators, idx, results, started, escaped, context, session,
                   sessionErrors, notOrch>>

\* validate_server: TransportFactory.create_transport returned a transport
CreateTransportOk ==
    /\ pc = "main"
    /\ transport' = IF transportType = "stdio"
                    THEN NewTransport("stdio")
                    ELSE initialize(NewTransport("http"), "ok")
    /\ context' = FreshContext
    /\ pc' = "setup"
    /\ UNCHANGED <<profile, cfgApplicable, transportType, closeCalls, validators,
                   idx, results, started, escaped, session, sessionErrors,
                   failure, exitCode, notOrch>>

\* validate_server: create_transport raised (the command cannot be launched,
\* the endpoint cannot be reached); the except branch records the error and
\* `transport` stays None
CreateTransportFails ==
    /\ pc = "main"
    /\ sessionErrors' = Append(sessionErrors, Err("setup_failed", <<"transport">>))
    /\ pc' = "finally"
    /\ UNCHANGED <<profile, cfgApplicable, transportType, transport, closeCalls,
                   validators, idx, results, started, escaped, context, session,
                   failure, exitCode, notOrch>>

\* validate_server: _create_validators returned the sorted validators
CreateValidatorsOk ==
    /\ pc = "setup"
    /\ validators' = SortValidators(profile.decl)
    /\ idx' = 1
    /\ pc' = "exec"
    /\ UNCHANGED <<profile, cfgApplicable, transportType, transport, closeCalls,
                   results, started, escaped, context, session, sessionErrors,
                   failure, exitCode, notOrch>>

\* validate_server: a validator's constructor raised in _create_validators
\* (RegistryValidator parsing a package entry without "name")
CreateValidatorsFails ==
    /\ pc = "setup"
    /\ "registry" \in Range(profile.decl)
    /\ sessionErrors' = Append(sessionErrors, Err("setup_failed", <<"validators">>))
    /\ pc' = "finally"
    /\ UNCHANGED <<profile, cfgApplicable, transportType, transport, closeCalls,
                   validators, idx, results, started, escaped, context, session,
                   failure, exitCode, notOrch>>

\* the loop: a validator that is not applicable is skipped
SkipValidator ==
    /\ pc = "exec"
    /\ idx <= Len(validators)
    /\ ~is_applicable(validators[idx], context)
    /\ idx' = idx + 1
    /\ UNCHANGED <<profile, cfgApplicable, transportType, pc, transport,
                   closeCalls, validators, results, started, escaped, context,
                   session, sessionErrors, failure, exitCode, notOrch>>

\* the loop: the protocol validator runs against the server's response
RunProtocol ==
    /\ pc = "exec"
    /\ idx <= Len(validators)
    /\ validators[idx] = "protocol"
    /\ is_applicable("protocol", context)
    /\ \E response \in SessionResponses, notifyOk \in BOOLEAN :
         LET v == ProtocolValidate(context, response, notifyOk)
             step == ExecuteStep(profile, "protocol",
                                 [raised |-> FALSE, msg |-> "",
                                  result |-> v.result, context |-> v.context],
                                 results)
         IN  /\ results' = step.results
             /\ context' = step.context
             /\ pc' = IF step.stop THEN "cleanup" ELSE "exec"
             /\ idx' = IF step.stop THEN idx ELSE idx + 1
    /\ started' = Append(started, "protocol")
    /\ UNCHANGED <<profile, cfgApplicable, transportType, transport, closeCalls,
                   validators, escaped, session, sessionErrors, failure,
                   exitCode, notOrch>>

\* the loop: any other validator runs; it passes, fails or raises
RunValidator ==
    /\ pc = "exec"
    /\ idx <= Len(validators)
    /\ validators[idx] # "protocol"
    /\ is_applicable(validators[idx], context)
    /\ \E outcome \in ValidateOutcomes :
         LET name == validators[idx]
             result == IF outcome = "pass"
                       THEN ValidatorResult(name, TRUE, <<>>, NoData)
                       ELSE ValidatorResult(name, FALSE,
                                <<Err("validator_error", <<name>>)>>, NoData)
             step == ExecuteStep(profile, name,
                                 [raised |-> outcome = "raise", msg |-> "boom",
                                  result |-> result, context |-> context],
                                 results)
         IN  /\ results' = step.results
             /\ context' = step.context
             /\ escaped' = IF outcome = "raise"
                           THEN Append(escaped, [name |-> name, msg |-> "boom"])
                           ELSE escaped
             /\ pc' = IF step.stop THEN "cleanup" ELSE "exec"
             /\ idx' = IF step.stop THEN idx ELSE idx + 1
    /\ started' = Append(started, validators[idx])
    /\ UNCHANGED <<profile, cfgApplicable, transportType, transport, closeCalls,
                   validators, session, sessionErrors, failure, exitCode, notOrch>>

\* the loop is exhausted
LoopEnds ==
    /\ pc = "exec"
    /\ idx > Len(validators)
    /\ pc' = "cleanup"
    /\ UNCHANGED <<profile, cfgApplicable, transportType, transport, closeCalls,
                   validators, idx, results, started, escaped, context, session,
                   sessionErrors, failure, exitCode, notOrch>>

\* validate_server: "Clean up transport", the close() at the end of the try
CleanupClose ==
    /\ pc = "cleanup"
    /\ transport' \in {Close(transport, c).tr : c \in CloseChoices}
    /\ closeCalls' = closeCalls + 1
    /\ pc' = "finally"
    /\ UNCHANGED <<profile, cfgApplicable, transportType, validators, idx,
                   results, started, escaped, context, session, sessionErrors,
                   failure, exitCode, notOrch>>

\* validate_server: the finally block, then the session is built and returned
FinallyReturn ==
    /\ pc = "finally"
    /\ \E f \in {finally_close(transport, closeCalls, c) : c \in CloseChoices} :
         /\ transport' = f.transport
         /\ closeCalls' = f.closeCalls
    /\ session' = [returned |-> TRUE,
                   overall_success |-> determine_overall_success(results, profile),
                   validator_results |-> results,
                   errors |-> sessionErrors]
    /\ pc' = "returned"
    /\ UNCHANGED <<profile, cfgApplicable, transportType, validators, idx,
                   results, started, escaped, context, sessionErrors, failure,
                   exitCode, notOrch>>

\* KeyboardInterrupt / cancellation while validate_server runs: `except
\* Exception` does not catch it, the finally block runs, main returns 1
Interrupt ==
    /\ pc \in {"setup", "exec", "cleanup"}
    /\ \E f \in {finally_close(transport, closeCalls, c) : c \in CloseChoices} :
         /\ transport' = f.transport
         /\ closeCalls' = f.closeCalls
    /\ failure' = "interrupt"
    /\ exitCode' = 1
    /\ pc' = "exited"
    /\ UNCHANGED <<profile, cfgApplicable, transportType, validators, idx,
                   results, started, escaped, context, session, sessionErrors,
                   notOrch>>

\* main: a reporter raised after the session was returned
ReportFails ==
    /\ pc = "returned"
    /\ failure' = "unexpected"
    /\ exitCode' = 1
    /\ pc' = "exited"
    /\ UNCHANGED <<profile, cfgApplicable, transportType, transport, closeCalls,
                   validators, idx, results, started, escaped, context, session,
                   sessionErrors, notOrch>>

\* main: return 0 if session.overall_success else 1
Exit ==
    /\ pc = "returned"
    /\ exitCode' = IF session.overall_success THEN 0 ELSE 1
    /\ pc' = "exited"
    /\ UNCHANGED <<profile, cfgApplicable, transportType, transport, closeCalls,
                   validators, idx, results, started, escaped, context, session,
                   sessionErrors, failure, notOrch>>

Next ==
    \/ MainConfigError
    \/ CreateTransportOk
    \/ CreateTransportFails
    \/ CreateValidatorsOk
    \/ CreateValidatorsFails
    \/ SkipValidator
    \/ RunProtocol
    \/ RunValidator
    \/ LoopEnds
    \/ CleanupClose
    \/ FinallyReturn
    \/ Interrupt
    \/ ReportFails
    \/ Exit

Init ==
    /\ OrchInit
    /\ SortIdle
    /\ StdioIdle
    /\ CloseIdle
    /\ ProtoIdle
    /\ PingIdle
    /\ MalformedIdle
    /\ RegistryIdle
    /\ ContainerIdle
    /\ MaskIdle
    /\ SecurityIdle
    /\ CapabilitiesIdle
    /\ ShutdownIdle
    /\ DispatchIdle
    /\ OAuthIdle
    /\ RewrittenIdle
    /\ ConfigIdle
    /\ CreateIdle
    /\ ReadLoopIdle

Spec == Init /\ [][Next]_vars

----------------------------------------------------------------------------
(* Properties of one CLI run *)

\* some result in res is a failed result of a validator the profile requires
RequiredFailed(res, prof) ==
    \E i \in DOMAIN res :
        /\ res[i].validator_name \in DOMAIN prof.required
        /\ prof.required[res[i].validator_name]
        /\ ~res[i].passed

\* C1: in a returned session overall_success is false exactly when some
\* collected result belongs to a validator the profile marks required and has
\* passed = false; failed results of non-required validators do not count
C1_OverallSuccess ==
    session.returned =>
        (session.overall_success = FALSE
            <=> RequiredFailed(session.validator_results, profile))

\* two non-required validators failed and the session still succeeded
C1_Witness ==
    /\ session.returned
    /\ session.overall_success
    /\ \E i, j \in DOMAIN session.validator_results :
         /\ i < j
         /\ ~session.validator_results[i].passed
         /\ ~session.validator_results[j].passed

\* result i is a failed (or raised) result of a required validator while
\* continue_on_failure is false
FailFast(i) ==
    /\ ~profile.continue_on_failure
    /\ profile.required[results[i].validator_name]
    /\ ~results[i].passed

\* C2: with continue_on_failure false, once a required validator has failed or
\* raised the loop has stopped: no later validator was started, the results
\* end with that validator's result, and every validator that ran before it
\* still has its result in the list, in execution order; the returned session
\* carries exactly that list
C2_FailFast ==
    /\ \A i \in DOMAIN results :
         FailFast(i) =>
            /\ pc # "exec"
            /\ started[Len(started)] = results[i].validator_name
            /\ \A j \in i..Len(results) :
                 results[j].validator_name = results[i].validator_name
    /\ \A k \in DOMAIN started :
         \E i \in DOMAIN results : results[i].validator_name = started[k]
    /\ \A i, j \in DOMAIN results :
         i < j => IndexOf(started, results[i].validator_name)
                    <= IndexOf(started, results[j].validator_name)
    /\ session.returned => session.validator_results = results

\* a required validator failed after another one had run, and an applicable
\* validator after it was never started
C2_Witness ==
    /\ session.returned
    /\ Len(results) >= 2
    /\ FailFast(Len(results))
    /\ results[1].validator_name # results[Len(results)].validator_name
    /\ \E n \in Range(validators) : n \notin Range(started) /\ cfgApplicable[n]

\* the run succeeded: nothing went wrong in main, the set-up of the session
\* did not fail, and no required validator failed
RunSucceeded ==
    /\ failure = "none"
    /\ sessionErrors = <<>>
    /\ ~RequiredFailed(results, profile)

\* C3: the process exit code is 0 exactly when the run succeeded and 1 on any
\* failure, a failure to create the transport or to set the session up included
C3_ExitCode ==
    pc = "exited" => /\ exitCode \in {0, 1}
                     /\ exitCode = 0 <=> RunSucceeded

C5_ExceptionBecomesResult ==
    [][Len(escaped') > Len(escaped) =>
          LET e == escaped'[Len(escaped')]
          IN  /\ results' = Append(results,
                    ValidatorResult(e.name, FALSE,
                        <<Err("execution_failed", <<e.msg>>)>>, EmptyData))
              /\ failure' = "none"
              /\ IF ~profile.continue_on_failure /\ profile.required[e.name]
                 THEN pc' = "cleanup"
                 ELSE pc' = "exec" /\ idx' = idx + 1]_vars

\* a validator raised and a later validator still ran; the session is returned
C5_Witness ==
    /\ session.returned
    /\ escaped # <<>>
    /\ \E k \in DOMAIN started :
         /\ started[k] = escaped[1].name
         /\ k < Len(started)
    /\ \E i \in DOMAIN session.validator_results :
         /\ session.validator_results[i].validator_name = escaped[1].name
         /\ Len(session.validator_results[i].errors) = 1

----------------------------------------------------------------------------
(* PingValidator.validate *)

\* the `error` member of a ping response: absent, not an object, or an object
\* with or without `code` and `message`
Some(v) == [present |-> TRUE, value |-> v]
NoInt == [present |-> FALSE, value |-> 0]
NoStr == [present |-> FALSE, value |-> ""]
NoPingError == [shape |-> "absent", code |-> NoInt, message |-> NoStr]
PingErrors ==
    {NoPingError, [shape |-> "other", code |-> NoInt, message |-> NoStr]}
    \cup {[shape |-> "obj", code |-> c, message |-> m] :
            c \in {Some(-32601), Some(-32600), NoInt},
            m \in {Some("boom"), NoStr}}

\* microseconds between sending the ping and reading its response
PingElapsed == {400, 999994, 1000004, 2000000}

\* what send_and_receive("ping") can do
PingResponses ==
    {[kind |-> k, error |-> NoPingError, hasResult |-> FALSE, elapsed |-> 0] :
        k \in {"timeout", "exception"}}
    \cup {[kind |-> "message", error |-> e, hasResult |-> r, elapsed |-> t] :
            e \in PingErrors, r \in BOOLEAN, t \in PingElapsed}

\* config.get("max_response_time_ms", 1000)
PingConfigs == {[max_response_time_ms |-> m] : m \in {500, 1000}}

\* dict.get(key, default)
GetOr(member, default) == IF member.present THEN member.value ELSE default

\* data["error"]: None, or a text built from a kind, a code and a message
PingErrorText(kind, code, message) ==
    [kind |-> kind, code |-> code, message |-> message]
NoPingErrorText == PingErrorText("None", 0, "")

\* round(response_time_ms, 2), in hundredths of a millisecond
RoundHundredths(us) == (us + 5) \div 10

\* mutant: the validator fails when it has something to warn about
PingPassedIfQuiet(warnings) == warnings = <<>>

\* passed=True, "always passes since ping is optional"
PingPassed(warnings) == TRUE

\* validate: the ValidatorResult for a response
PingValidate(config, response) ==
    LET out(supported, rt, error, warnings) ==
            [validator_name |-> "ping",
             passed |-> PingPassed(warnings),
             errors |-> <<>>,
             warnings |-> warnings,
             data |-> [supported |-> supported, response_time_ms |-> rt,
                       error |-> error]]
        e == response.error
        err(kind) == PingErrorText(kind, 0, "")
    IN  CASE response.kind = "timeout" ->
                out(FALSE, NoInt, err("timed_out"), <<"timed_out_optional">>)
          [] response.kind = "exception" ->
                out(FALSE, NoInt, err("test_failed"), <<"test_failed">>)
          [] e.shape = "other" ->
                out(FALSE, NoInt, err("test_failed"), <<"test_failed">>)
          [] e.shape = "obj" /\ GetOr(e.code, 0) = -32601 ->
                out(FALSE, NoInt, err("method_not_supported"), <<"not_supported">>)
          [] e.shape = "obj" ->
                out(FALSE, NoInt,
                    PingErrorText("error", GetOr(e.code, 0),
                                  GetOr(e.message, "Unknown error")),
                    <<"protocol_error">>)
          [] response.hasResult ->
                out(TRUE, Some(RoundHundredths(response.elapsed)), NoPingErrorText,
                    IF response.elapsed > config.max_response_time_ms * 1000
                    THEN <<"slow">> ELSE <<>>)
          [] OTHER ->
                out(FALSE, NoInt, err("invalid_format"),
                    <<"missing_result_or_error">>)

PingInit ==
    /\ pingPc = "idle"
    /\ pingConfig \in PingConfigs
    /\ pingResponse \in PingResponses
    /\ pingResult = "none"

PvPing ==
    /\ pingPc = "idle"
    /\ pingResult' = PingValidate(pingConfig, pingResponse)
    /\ pingPc' = "done"
    /\ UNCHANGED <<pingConfig, pingResponse, notPing>>

PingNext == PvPing

InitPing ==
    /\ PingInit
    /\ OrchIdle
    /\ SortIdle
    /\ StdioIdle
    /\ CloseIdle
    /\ ProtoIdle
    /\ MalformedIdle
    /\ RegistryIdle
    /\ ContainerIdle
    /\ MaskIdle
    /\ SecurityIdle
    /\ CapabilitiesIdle
    /\ ShutdownIdle
    /\ DispatchIdle
    /\ OAuthIdle
    /\ RewrittenIdle
    /\ ConfigIdle
    /\ CreateIdle
    /\ ReadLoopIdle

SpecPing == InitPing /\ [][PingNext]_vars

\* C11: whatever the ping request did (result, -32601, another error, neither
\* member, timeout, transport exception) the result has passed = true and an
\* empty errors list; data.supported is true exactly for a result response
\* without an error member, and data.error is set in every other case
C11_PingAlwaysPasses ==
    pingPc = "done" =>
        /\ pingResult.validator_name = "ping"
        /\ pingResult.passed
        /\ pingResult.errors = <<>>
        /\ pingResult.data.supported =
              (/\ pingResponse.kind = "message"
               /\ pingResponse.error.shape = "absent"
               /\ pingResponse.hasResult)
        /\ pingResult.data.supported = (pingResult.data.error = NoPingErrorText)

\* the transport raised and the validator still passed, with a warning
C11_Witness ==
    /\ pingPc = "done"
    /\ pingResponse.kind = "exception"
    /\ pingResult.passed
    /\ pingResult.warnings # <<>>

----------------------------------------------------------------------------
(* ErrorComplianceValidator._test_malformed_request_error *)

\* lines arriving on the subprocess's stdout within malformed_timeout
MaxIncoming == 2

\* the `code` member of an error object: an integer, a string, or absent
ErrorCodes ==
    {[t |-> "int", v |-> -32700], [t |-> "int", v |-> -32600],
     [t |-> "str", v |-> 0], [t |-> "none", v |-> 0]}
NoErrorCode == [t |-> "none", v |-> 0]

\* one line of server output: a server-initiated message (has `method`), a
\* response (to the malformed line, or a late one to an earlier request), a
\* line that is not JSON, or end of file (readline returns b"")
StdoutLines ==
    {[kind |-> k, to |-> "none", hasError |-> FALSE, code |-> NoErrorCode] :
        k \in {"method", "garbage", "eof"}}
    \cup {[kind |-> "response", to |-> t, hasError |-> FALSE, code |-> NoErrorCode] :
            t \in {"malformed", "earlier"}}
    \cup {[kind |-> "response", to |-> t, hasError |-> TRUE, code |-> c] :
            t \in {"malformed", "earlier"}, c \in ErrorCodes}

RECURSIVE SeqsUpTo(_, _)
\* sequences over S of length at most n
SeqsUpTo(S, n) ==
    IF n = 0 THEN {<<>>}
    ELSE LET shorter == SeqsUpTo(S, n - 1)
         IN  shorter \cup {Append(s, x) : s \in shorter, x \in S}

MalformedConfigs ==
    [strict_malformed_handling : BOOLEAN, strict_error_codes : BOOLEAN]

\* data["malformed_request_test"] as validate() creates it; a key that is not
\* set reads FALSE
FreshMalformedData ==
    [passed |-> FALSE, error |-> "None", details |-> NoErrorCode,
     hasDetails |-> FALSE, ignored |-> FALSE, skipped |-> FALSE,
     processed_as_valid |-> FALSE]

\* mutant: the silence warning is given whatever the configuration
SilenceWarningsAlways(config) == <<"no_response_strict_32700">>

\* the warning of the two timeout branches
SilenceWarnings(config) ==
    IF config.strict_malformed_handling
    THEN <<"no_response_strict_32700">> ELSE <<>>

\* the branches after the loop: [data, warnings] for the response taken as the
\* reply to the malformed line
JudgeMalformedReply(config, response, data) ==
    IF response.hasError
    THEN LET c == response.code
             ok == c.t = "int"
             w == IF c.t = "int" /\ c.v # -32700 /\ config.strict_error_codes
                  THEN <<"non_standard_code">> ELSE <<>>
         IN  [data |-> [data EXCEPT !.passed = ok, !.details = c,
                                    !.hasDetails = TRUE],
              warnings |-> w]
    ELSE IF config.strict_malformed_handling
         THEN [data |-> [data EXCEPT !.error = "processed_as_valid"],
               warnings |-> <<"processed_strict_32700">>]
         ELSE [data |-> [data EXCEPT !.error = "processed_as_valid",
                                     !.processed_as_valid = TRUE],
               warnings |-> <<>>]

MalformedInit ==
    /\ mfPc = "start"
    /\ mfConfig \in MalformedConfigs
    /\ mfStdio \in BOOLEAN
    /\ mfWriteOk \in BOOLEAN
    /\ mfIncoming \in SeqsUpTo(StdoutLines, MaxIncoming)
    /\ mfPos = 1
    /\ mfData = FreshMalformedData
    /\ mfWarnings = <<>>

\* no subprocess (HTTP / SSE): the sub-test is skipped
MfSkip ==
    /\ mfPc = "start"
    /\ ~mfStdio
    /\ mfData' = [mfData EXCEPT !.skipped = TRUE]
    /\ mfPc' = "done"
    /\ UNCHANGED <<mfConfig, mfStdio, mfWriteOk, mfIncoming, mfPos, mfWarnings,
                   notMalformed>>

\* the malformed line is written to stdin
MfWrite ==
    /\ mfPc = "start"
    /\ mfStdio
    /\ mfWriteOk
    /\ mfPc' = "reading"
    /\ UNCHANGED <<mfConfig, mfStdio, mfWriteOk, mfIncoming, mfPos, mfData, mfWarnings,
                   notMalformed>>

\* write / drain raised (the subprocess has exited): the outer except branch
MfWriteFails ==
    /\ mfPc = "start"
    /\ mfStdio
    /\ ~mfWriteOk
    /\ mfData' = [mfData EXCEPT !.error = "exception"]
    /\ mfWarnings' = Append(mfWarnings, "test_failed")
    /\ mfPc' = "done"
    /\ UNCHANGED <<mfConfig, mfStdio, mfWriteOk, mfIncoming, mfPos, notMalformed>>

\* the loop reads a server-initiated message and goes on
MfSkipServerMessage ==
    /\ mfPc = "reading"
    /\ mfPos <= Len(mfIncoming)
    /\ mfIncoming[mfPos].kind = "method"
    /\ mfPos' = mfPos + 1
    /\ UNCHANGED <<mfPc, mfConfig, mfStdio, mfWriteOk, mfIncoming, mfData,
                   mfWarnings, notMalformed>>

\* the loop reads a response and judges it as the reply to the malformed line
MfReadReply ==
    /\ mfPc = "reading"
    /\ mfPos <= Len(mfIncoming)
    /\ mfIncoming[mfPos].kind = "response"
    /\ LET j == JudgeMalformedReply(mfConfig, mfIncoming[mfPos], mfData)
       IN  /\ mfData' = j.data
           /\ mfWarnings' = mfWarnings \o j.warnings
    /\ mfPos' = mfPos + 1
    /\ mfPc' = "done"
    /\ UNCHANGED <<mfIncoming, mfConfig, mfStdio, mfWriteOk, notMalformed>>

\* the loop reads a line that is not JSON or the empty line of end of file:
\* parse_response raises ValueError, which only the outer except branch catches
MfReadInvalid ==
    /\ mfPc = "reading"
    /\ mfPos <= Len(mfIncoming)
    /\ mfIncoming[mfPos].kind \in {"garbage", "eof"}
    /\ mfData' = [mfData EXCEPT !.error = "exception"]
    /\ mfWarnings' = Append(mfWarnings, "test_failed")
    /\ mfPos' = mfPos + 1
    /\ mfPc' = "done"
    /\ UNCHANGED <<mfIncoming, mfConfig, mfStdio, mfWriteOk, notMalformed>>

\* nothing more arrives before malformed_timeout has passed
MfTimeout ==
    /\ mfPc = "reading"
    /\ mfPos > Len(mfIncoming)
    /\ mfData' = [mfData EXCEPT !.error = "None", !.ignored = TRUE]
    /\ mfWarnings' = mfWarnings \o SilenceWarnings(mfConfig)
    /\ mfPc' = "done"
    /\ UNCHANGED <<mfConfig, mfStdio, mfWriteOk, mfIncoming, mfPos, notMalformed>>

MalformedNext ==
    \/ MfSkip
    \/ MfWrite
    \/ MfWriteFails
    \/ MfSkipServerMessage
    \/ MfReadReply
    \/ MfReadInvalid
    \/ MfTimeout

InitMalformed ==
    /\ MalformedInit
    /\ OrchIdle
    /\ SortIdle
    /\ StdioIdle
    /\ CloseIdle
    /\ ProtoIdle
    /\ PingIdle
    /\ RegistryIdle
    /\ ContainerIdle
    /\ MaskIdle
    /\ SecurityIdle
    /\ CapabilitiesIdle
    /\ ShutdownIdle
    /\ DispatchIdle
    /\ OAuthIdle
    /\ RewrittenIdle
    /\ ConfigIdle
    /\ CreateIdle
    /\ ReadLoopIdle

SpecMalformed == InitMalformed /\ [][MalformedNext]_vars

\* the outcome the claim describes: ignored is set and the sub-test added no
\* warning, or exactly the -32700 recommendation in strict mode
SilenceAccepted ==
    /\ mfData.ignored
    /\ mfWarnings = IF mfConfig.strict_malformed_handling
                    THEN <<"no_response_strict_32700">> ELSE <<>>

\* C12 as claimed: on stdio, when the malformed line was written and no line
\* the subprocess writes within the timeout is a reply to it, the silence is
\* accepted
C12_AsClaimed ==
    (/\ mfPc = "done"
     /\ mfStdio
     /\ mfWriteOk
     /\ \A i \in DOMAIN mfIncoming :
          /\ mfIncoming[i].kind # "garbage"
          /\ ~(mfIncoming[i].kind = "response" /\ mfIncoming[i].to = "malformed"))
        => SilenceAccepted

\* C12, amended: on stdio, when the malformed line could be written and every
\* line the subprocess writes within the timeout is a server-initiated
\* message (it has a `method` member), ignored is true and the sub-test adds
\* no warning, or exactly the -32700 recommendation in strict mode
C12_SilenceAccepted ==
    (/\ mfPc = "done"
     /\ mfStdio
     /\ mfWriteOk
     /\ \A i \in DOMAIN mfIncoming : mfIncoming[i].kind = "method")
        => SilenceAccepted

\* strict mode, one notification skipped, then silence: ignored with one warning
C12_Witness ==
    /\ mfPc = "done"
    /\ mfStdio
    /\ mfWriteOk
    /\ mfConfig.strict_malformed_handling
    /\ Len(mfIncoming) = 1
    /\ mfIncoming[1].kind = "method"
    /\ mfData.ignored
    /\ Len(mfWarnings) = 1

----------------------------------------------------------------------------
(* RegistryValidator.validate and the registry checkers *)

\* packages checked in one run
MaxPackages == 2

PackageNames == {"pkg-a", "pkg-b"}

\* registry_type of a package; "cargo" has no checker
RegistryTypes == {"npm", "pypi", "docker", "cargo"}

\* str(e) of an exception raised by the HTTP request, as words
ExceptionTexts ==
    {<<"Connection", "reset", "by", "peer">>,
     <<"Cannot", "connect", "to", "host", "[", "Domain", "name", "not",
       "found", "]">>}

\* what the request of check_package can do: an HTTP status, a timeout, or an
\* exception with a text
NoText == <<>>
RequestOutcomes ==
    {[kind |-> "status", status |-> st, text |-> NoText] : st \in {200, 404, 500}}
    \cup {[kind |-> "timeout", status |-> 0, text |-> NoText]}
    \cup {[kind |-> "exception", status |-> 0, text |-> t] : t \in ExceptionTexts}

Packages == [name : PackageNames, registry_type : RegistryTypes,
             outcome : RequestOutcomes]

\* str.lower() of one word
LowerWord(w) ==
    CASE w = "Package" -> "package" [] w = "Image" -> "image"
      [] w = "Registry" -> "registry" [] w = "HTTP" -> "http"
      [] w = "Connection" -> "connection" [] w = "Cannot" -> "cannot"
      [] w = "Domain" -> "domain" [] OTHER -> w

Lower(text) == [i \in DOMAIN text |-> LowerWord(text[i])]

\* `pattern in text` on texts given as words
Contains(text, pattern) ==
    \E i \in 1..(Len(text) - Len(pattern) + 1) :
        SubSeq(text, i, i + Len(pattern) - 1) = pattern

\* check_package of the three checkers: [exists, error]
check_package(package, outcome) ==
    CASE outcome.kind = "status" /\ outcome.status = 200 ->
            [exists |-> TRUE, error |-> NoText]
      [] outcome.kind = "status" /\ outcome.status = 404 ->
            [exists |-> FALSE,
             error |-> <<IF package.registry_type = "docker"
                         THEN "Image" ELSE "Package", "not", "found">>]
      [] outcome.kind = "status" ->
            [exists |-> FALSE,
             error |-> <<"Registry", "error", ":", "HTTP", ToString(outcome.status)>>]
      [] outcome.kind = "timeout" ->
            [exists |-> FALSE, error |-> <<"Registry", "request", "timeout">>]
      [] OTHER ->
            [exists |-> FALSE,
             error |-> <<"Registry", "request", "failed", ":">> \o outcome.text]

\* the test `"not found" in error_msg.lower() or "404" in error_msg`
LooksMissing(error_msg) ==
    \/ Contains(Lower(error_msg), <<"not", "found">>)
    \/ Contains(error_msg, <<"404">>)

FreshRegistryData ==
    [packages_found |-> 0, packages_missing |-> 0, registry_errors |-> 0]

\* one iteration of the loop over packages_to_validate:
\* [errors, warnings, data] after the package
CheckOne(package, errors, warnings, data) ==
    IF package.registry_type \notin {"npm", "pypi", "docker"}
    THEN [errors |-> Append(errors, [kind |-> "unsupported_registry",
                                     name |-> package.name,
                                     registry |-> package.registry_type]),
          warnings |-> warnings,
          data |-> [data EXCEPT !.registry_errors = @ + 1]]
    ELSE LET result == check_package(package, package.outcome)
             missing == [kind |-> "not_found", name |-> package.name,
                         registry |-> package.registry_type]
         IN  IF result.exists
             THEN [errors |-> errors, warnings |-> warnings,
                   data |-> [data EXCEPT !.packages_found = @ + 1]]
             ELSE IF result.error # NoText
             THEN IF LooksMissing(result.error)
                  THEN [errors |-> Append(errors, missing),
                        warnings |-> warnings,
                        data |-> [data EXCEPT !.packages_missing = @ + 1]]
                  ELSE [errors |-> errors,
                        warnings |-> Append(warnings,
                            [kind |-> "could_not_verify", name |-> package.name]),
                        data |-> [data EXCEPT !.registry_errors = @ + 1]]
             ELSE [errors |-> Append(errors, missing),
                   warnings |-> warnings,
                   data |-> [data EXCEPT !.packages_missing = @ + 1]]

RegistryInit ==
    /\ regPc = "loop"
    /\ regPackages \in SeqsUpTo(Packages, MaxPackages)
    /\ regPos = 1
    /\ regErrors = <<>>
    /\ regWarnings = <<>>
    /\ regData = FreshRegistryData
    /\ regResult = "none"

\* validate: no package to validate, the early return with one warning
RegNoPackages ==
    /\ regPc = "loop"
    /\ regPackages = <<>>
    /\ regWarnings' = <<[kind |-> "no_packages", name |-> ""]>>
    /\ regResult' = [validator_name |-> "registry", passed |-> TRUE]
    /\ regPc' = "done"
    /\ UNCHANGED <<regPackages, regPos, regErrors, regData, notRegistry>>

\* validate: the loop checks the next package
RegCheckPackage ==
    /\ regPc = "loop"
    /\ regPos <= Len(regPackages)
    /\ LET r == CheckOne(regPackages[regPos], regErrors, regWarnings, regData)
       IN  /\ regErrors' = r.errors
           /\ regWarnings' = r.warnings
           /\ regData' = r.data
    /\ regPos' = regPos + 1
    /\ UNCHANGED <<regPc, regPackages, regResult, notRegistry>>

\* validate: after the loop, passed = len(errors) == 0
RegReturn ==
    /\ regPc = "loop"
    /\ regPackages # <<>>
    /\ regPos > Len(regPackages)
    /\ regResult' = [validator_name |-> "registry", passed |-> regErrors = <<>>]
    /\ regPc' = "done"
    /\ UNCHANGED <<regPackages, regPos, regErrors, regWarnings, regData,
                   notRegistry>>

RegistryNext ==
    \/ RegNoPackages
    \/ RegCheckPackage
    \/ RegReturn

InitRegistry ==
    /\ RegistryInit
    /\ OrchIdle
    /\ SortIdle
    /\ StdioIdle
    /\ CloseIdle
    /\ ProtoIdle
    /\ PingIdle
    /\ MalformedIdle
    /\ ContainerIdle
    /\ MaskIdle
    /\ SecurityIdle
    /\ CapabilitiesIdle
    /\ ShutdownIdle
    /\ DispatchIdle
    /\ OAuthIdle
    /\ RewrittenIdle
    /\ ConfigIdle
    /\ CreateIdle
    /\ ReadLoopIdle

SpecRegistry == InitRegistry /\ [][RegistryNext]_vars

\* package i has a checker and its registry answered 404
Reported404(i) ==
    /\ regPackages[i].registry_type \in {"npm", "pypi", "docker"}
    /\ regPackages[i].outcome.kind = "status"
    /\ regPackages[i].outcome.status = 404

\* package i has a checker and its check ended in a timeout, a network
\* failure or a registry error other than 404
CheckFailed(i) ==
    /\ regPackages[i].registry_type \in {"npm", "pypi", "docker"}
    /\ \/ regPackages[i].outcome.kind \in {"timeout", "exception"}
       \/ /\ regPackages[i].outcome.kind = "status"
          /\ regPackages[i].outcome.status \notin {200, 404}

\* C13: every package reported 404 gives one error naming it and its registry
\* and counts in packages_missing; every package whose check failed otherwise
\* gives a warning and no error and counts in registry_errors only; passed is
\* false only if some package was reported 404 (or has no checker)
C13_MissingVersusUnverified ==
    (regPc = "done" /\ regPackages # <<>>) =>
        /\ regData.packages_missing =
              Cardinality({i \in DOMAIN regPackages : Reported404(i)})
        /\ \A n \in PackageNames, t \in RegistryTypes :
              Cardinality({k \in DOMAIN regErrors :
                  regErrors[k] = [kind |-> "not_found", name |-> n, registry |-> t]})
              = Cardinality({i \in DOMAIN regPackages :
                  /\ Reported404(i)
                  /\ regPackages[i].name = n
                  /\ regPackages[i].registry_type = t})
        /\ Cardinality({k \in DOMAIN regWarnings :
                  regWarnings[k].kind = "could_not_verify"})
              = Cardinality({i \in DOMAIN regPackages : CheckFailed(i)})
        /\ regData.registry_errors >=
              Cardinality({i \in DOMAIN regPackages : CheckFailed(i)})
        /\ ~regResult.passed =>
              \E i \in DOMAIN regPackages :
                  \/ Reported404(i)
                  \/ regPackages[i].registry_type = "cargo"

-----------------------------------------------------------------------------
(* Container commands: _inject_container_env_vars (core/validator.py),     *)
(* _extract_image_name (validators/container.py) and the command line that  *)
(* validate_server records in the session.                                   *)

MaxOptions == 2

\* options_with_values, the same eighteen options in both functions
OptionsWithValues ==
    {"-v", "--volume", "-e", "--env", "-p", "--port", "--name", "-w",
     "--workdir", "-u", "--user", "--entrypoint", "--hostname", "--restart",
     "--memory", "--cpus", "--network", "--label"}

\* arg.startswith("-") over the tokens that occur here
StartsWithDash(arg) ==
    arg \in OptionsWithValues \cup {"--platform", "--name=srv", "--rm", "--stdio"}

\* "=" in arg over the tokens that occur here
HasEq(arg) == arg \in {"--name=srv", "A=1", "FOO=bar", "TOKEN=s3"}

\* one option of `docker run` with the tokens it occupies: a listed option
\* with its value, an option with a value that the list does not have, an
\* option in '=' form and a bare flag
OptionForms ==
    {<<"-e", "A=1">>, <<"--platform", "linux/amd64">>, <<"--name=srv">>, <<"--rm">>}

Flatten(ss) ==
    LET RECURSIVE F(_)
        F(i) == IF i > Len(ss) THEN <<>> ELSE ss[i] \o F(i + 1)
    IN F(1)

\* IMAGE [command], or nothing when the image is left out
ImageAndArgs ==
    {<<>>, <<"myrepo/myimage:1.2">>, <<"myrepo/myimage:1.2", "serve">>,
     <<"myrepo/myimage:1.2", "--stdio">>}

\* docker/podman run [options] IMAGE [command], with the position of IMAGE
RunCommands ==
    { [args    |-> <<rt, "run">> \o Flatten(opts) \o rest,
       imageAt |-> IF rest = <<>> THEN 0 ELSE 3 + Len(Flatten(opts))] :
        rt \in {"docker", "podman"}, opts \in SeqsUpTo(OptionForms, MaxOptions),
        rest \in ImageAndArgs }

OtherCommands ==
    { [args |-> a, imageAt |-> 0] :
        a \in {<<"npx", "server">>, <<"docker", "ps">>, <<"docker">>} }

Commands == RunCommands \cup OtherCommands

EnvMaps ==
    {<<>>,
     <<[key |-> "FOO", value |-> "bar"]>>,
     <<[key |-> "FOO", value |-> "bar"], [key |-> "TOKEN", value |-> "s3"]>>,
     <<[key |-> "TOKEN", value |-> "s3"], [key |-> "FOO", value |-> "bar"]>>}

\* Python's command_args[:n] and command_args[n:]
Prefix(s, n) == SubSeq(s, 1, IF n < Len(s) THEN n ELSE Len(s))
Suffix(s, n) == SubSeq(s, n + 1, Len(s))

\* the scan of _inject_container_env_vars stopping at the value of an option
RECURSIVE ScanOptionsFlagsOnly(_, _)
ScanOptionsFlagsOnly(command_args, i) ==
    IF i >= Len(command_args) THEN i
    ELSE IF StartsWithDash(command_args[i + 1])
         THEN ScanOptionsFlagsOnly(command_args, i + 1)
         ELSE i

\* the while loop of _inject_container_env_vars: i is the 0-based index, the
\* value is insertion_point when the loop ends
RECURSIVE ScanOptions(_, _)
ScanOptions(command_args, i) ==
    IF i >= Len(command_args) THEN i
    ELSE LET arg == command_args[i + 1] IN
         IF StartsWithDash(arg)
         THEN IF arg \in OptionsWithValues THEN ScanOptions(command_args, i + 2)
              ELSE IF HasEq(arg) THEN ScanOptions(command_args, i + 1)
              ELSE ScanOptions(command_args, i + 1)
         ELSE i

\* new_command.extend(["-e", f"{key}={value}"]) for each variable
RECURSIVE EnvOptions(_)
EnvOptions(env_vars) ==
    IF env_vars = <<>> THEN <<>>
    ELSE <<"-e", Head(env_vars).key \o "=" \o Head(env_vars).value>>
         \o EnvOptions(Tail(env_vars))

IsRunCommand(command_args) ==
    /\ Len(command_args) >= 2
    /\ command_args[1] \in {"docker", "podman"}
    /\ command_args[2] = "run"

inject_container_env_vars(command_args, env_vars) ==
    IF env_vars = <<>> \/ Len(command_args) < 2 THEN command_args
    ELSE IF command_args[1] \notin {"docker", "podman"} \/ command_args[2] # "run"
    THEN command_args
    ELSE LET insertion_point == ScanOptions(command_args, 2) IN
         Prefix(command_args, insertion_point) \o EnvOptions(env_vars)
             \o Suffix(command_args, insertion_point)

is_container_command(command_args) ==
    /\ command_args # <<>>
    /\ command_args[1] \in {"docker", "podman"}
    /\ Len(command_args) >= 3
    /\ command_args[2] = "run"

\* the while loop of _extract_image_name reading every option as a flag
RECURSIVE ImageScanFlagsOnly(_, _)
ImageScanFlagsOnly(command_args, i) ==
    IF i >= Len(command_args) THEN NoStr
    ELSE LET arg == command_args[i + 1] IN
         IF StartsWithDash(arg)
         THEN ImageScanFlagsOnly(command_args, i + 1)
         ELSE Some(arg)

\* the while loop of _extract_image_name, i the 0-based index
RECURSIVE ImageScan(_, _)
ImageScan(command_args, i) ==
    IF i >= Len(command_args) THEN NoStr
    ELSE LET arg == command_args[i + 1] IN
         IF StartsWithDash(arg)
         THEN IF arg \in OptionsWithValues THEN ImageScan(command_args, i + 2)
              ELSE IF HasEq(arg) THEN ImageScan(command_args, i + 1)
              ELSE ImageScan(command_args, i + 1)
         ELSE Some(arg)

extract_image_name(command_args) ==
    IF ~is_container_command(command_args) THEN NoStr
    ELSE IF Len(command_args) < 3 \/ command_args[2] # "run" THEN NoStr
    ELSE ImageScan(command_args, 2)

ContainerInit ==
    /\ ctPc = "ready"
    /\ \E c \in Commands : ctCommand = c.args /\ ctImageAt = c.imageAt
    /\ ctEnv \in EnvMaps
    /\ ctDone = {}
    /\ ctInjected = <<>>
    /\ ctImage = NoStr
    /\ ctExecuted = <<>>
    /\ ctEnvUpdated = FALSE
    /\ ctSessionArgs = <<>>

\* a call of _inject_container_env_vars(command_args, env_vars)
CtInject ==
    /\ ctPc = "ready"
    /\ "inject" \notin ctDone
    /\ ctDone' = ctDone \cup {"inject"}
    /\ ctInjected' = inject_container_env_vars(ctCommand, ctEnv)
    /\ UNCHANGED <<ctPc, ctCommand, ctImageAt, ctEnv, ctImage, ctExecuted,
                   ctEnvUpdated, ctSessionArgs>>
    /\ UNCHANGED notContainer

\* a call of _extract_image_name(command_args)
CtExtract ==
    /\ ctPc = "ready"
    /\ "extract" \notin ctDone
    /\ ctDone' = ctDone \cup {"extract"}
    /\ ctImage' = extract_image_name(ctCommand)
    /\ UNCHANGED <<ctPc, ctCommand, ctImageAt, ctEnv, ctInjected, ctExecuted,
                   ctEnvUpdated, ctSessionArgs>>
    /\ UNCHANGED notContainer

\* validate_server over stdio: _create_stdio_transport launches the process
\* and the session that is returned carries final_command_args
CtLaunch ==
    /\ ctPc = "ready"
    /\ "launch" \notin ctDone
    /\ ctDone' = ctDone \cup {"launch"}
    /\ IF ctEnv # <<>> /\ IsRunCommand(ctCommand)
       THEN /\ ctExecuted' = inject_container_env_vars(ctCommand, ctEnv)
            /\ ctEnvUpdated' = FALSE
       ELSE /\ ctExecuted' = ctCommand
            /\ ctEnvUpdated' = (ctEnv # <<>>)
    /\ ctSessionArgs' = ctCommand
    /\ UNCHANGED <<ctPc, ctCommand, ctImageAt, ctEnv, ctInjected, ctImage>>
    /\ UNCHANGED notContainer

\* a call of _extract_image_name on the command that injection returned
CtExtractRewritten ==
    /\ ctPc = "ready"
    /\ "inject" \in ctDone
    /\ "reextract" \notin ctDone
    /\ ctDone' = ctDone \cup {"reextract"}
    /\ rwImage' = extract_image_name(ctInjected)
    /\ UNCHANGED <<ctPc, ctCommand, ctImageAt, ctEnv, ctInjected, ctImage,
                   ctExecuted, ctEnvUpdated, ctSessionArgs>>
    /\ UNCHANGED notContainerRewritten

ContainerNext == CtInject \/ CtExtract \/ CtLaunch \/ CtExtractRewritten

InitContainer ==
    /\ ContainerInit
    /\ OrchIdle
    /\ SortIdle
    /\ StdioIdle
    /\ CloseIdle
    /\ ProtoIdle
    /\ PingIdle
    /\ MalformedIdle
    /\ RegistryIdle
    /\ MaskIdle
    /\ SecurityIdle
    /\ CapabilitiesIdle
    /\ ShutdownIdle
    /\ DispatchIdle
    /\ OAuthIdle
    /\ RewrittenIdle
    /\ ConfigIdle
    /\ CreateIdle
    /\ ReadLoopIdle

SpecContainer == InitContainer /\ [][ContainerNext]_vars

\* C14: for a docker/podman run command and a non-empty env-var map the
\* rewritten command is the original with one -e KEY=VALUE pair per variable
\* inserted immediately before the image token, after every option that
\* precedes the image.
C14_InjectedBeforeImage ==
    ("inject" \in ctDone /\ IsRunCommand(ctCommand) /\ ctEnv # <<>> /\ ctImageAt > 0)
        => ctInjected = SubSeq(ctCommand, 1, ctImageAt - 1) \o EnvOptions(ctEnv)
                            \o SubSeq(ctCommand, ctImageAt, Len(ctCommand))

\* the positions of command_args that hold the value of a listed option
ValuePositions(command_args) ==
    CHOOSE V \in SUBSET (3..Len(command_args)) :
        \A p \in 3..Len(command_args) :
            p \in V <=> /\ p - 1 >= 3
                        /\ p - 1 \notin V
                        /\ command_args[p - 1] \in OptionsWithValues

\* positions after 'run' holding neither an option nor such a value
ImageCandidates(command_args) ==
    {p \in 3..Len(command_args) :
        /\ ~StartsWithDash(command_args[p])
        /\ p \notin ValuePositions(command_args)}

\* C15: for a docker/podman run command of at least 3 tokens the extracted
\* image name is the first token after 'run' that is neither an option nor
\* the value of a recognised option-with-value, however many options and
\* flags precede it.
C15_FirstNonOptionToken ==
    ("extract" \in ctDone /\ IsRunCommand(ctCommand) /\ Len(ctCommand) >= 3
        /\ ImageCandidates(ctCommand) # {})
        => LET first == CHOOSE p \in ImageCandidates(ctCommand) :
                            \A q \in ImageCandidates(ctCommand) : p <= q
           IN ctImage = Some(ctCommand[first])

C15_Witness ==
    /\ "extract" \in ctDone
    /\ ctCommand = <<"docker", "run", "-e", "A=1", "--rm", "myrepo/myimage:1.2", "serve">>
    /\ ctImage = Some("myrepo/myimage:1.2")

\* C16: ValidationSession.command_args holds the command line that was
\* executed: for a docker/podman run command launched with env vars it is the
\* rewritten command with the injected -e KEY=VALUE options.
C16_SessionHoldsExecuted ==
    ("launch" \in ctDone /\ IsRunCommand(ctCommand) /\ ctEnv # <<>>)
        => ctSessionArgs = ctExecuted

-----------------------------------------------------------------------------
(* mask_sensitive_value (utils/debug.py), on strings given as sequences of  *)
(* characters.                                                               *)

MaxValueLen == 6

sensitive_patterns ==
    << <<"p","a","s","s","w","o","r","d">>,
       <<"s","e","c","r","e","t">>,
       <<"k","e","y">>,
       <<"t","o","k","e","n">>,
       <<"a","u","t","h">>,
       <<"c","r","e","d","e","n","t","i","a","l">>,
       <<"a","p","i","_","k","e","y">>,
       <<"c","l","i","e","n","t","_","s","e","c","r","e","t">>,
       <<"p","r","i","v","a","t","e">>,
       <<"c","e","r","t">>,
       <<"o","a","u","t","h">> >>

UpperLetters == <<"A","E","H","I","K","M","N","O","P","T","Y">>
LowerLetters == <<"a","e","h","i","k","m","n","o","p","t","y">>

\* str.lower() on one character
LowerChar(c) ==
    IF \E i \in DOMAIN UpperLetters : UpperLetters[i] = c
    THEN LowerLetters[CHOOSE i \in DOMAIN UpperLetters : UpperLetters[i] = c]
    ELSE c

\* key.lower()
LowerKey(key) == [i \in DOMAIN key |-> LowerChar(key[i])]

MaskKeys ==
    { <<"A","P","I","_","K","E","Y">>,
      <<"T","o","k","e","n">>,
      <<"M","O","N","K","E","Y">>,
      <<"P","A","T","H">>,
      <<"H","O","M","E">>,
      <<"k","e">> }

MaskValues ==
    SeqsUpTo({"a", "b"}, MaxValueLen)
        \cup { <<"a","b","c","d","e","f","g","h","i","j","1","2","3","4">> }

\* "*" * n
Stars(n) == [i \in 1..n |-> "*"]

\* value[-2:]
LastTwo(value) == SubSeq(value, IF Len(value) > 2 THEN Len(value) - 1 ELSE 1, Len(value))

\* the masking branch with the test on the length left out
MaskedAnyLength(value) ==
    Prefix(value, 2) \o Stars(IF Len(value) > 4 THEN Len(value) - 4 ELSE 0) \o LastTwo(value)

\* the body of `if pattern in key_lower`
Masked(value) ==
    IF Len(value) <= 4 THEN Stars(Len(value))
    ELSE Prefix(value, 2) \o Stars(Len(value) - 4) \o LastTwo(value)

mask_sensitive_value(key, value) ==
    LET key_lower == LowerKey(key)
        RECURSIVE Loop(_)
        Loop(n) ==
            IF n > Len(sensitive_patterns) THEN value
            ELSE IF Contains(key_lower, sensitive_patterns[n]) THEN Masked(value)
            ELSE Loop(n + 1)
    IN Loop(1)

MaskInit ==
    /\ maskPc = "ready"
    /\ maskKey \in MaskKeys
    /\ maskValue \in MaskValues
    /\ maskOut = <<>>

MaskCall ==
    /\ maskPc = "ready"
    /\ maskPc' = "done"
    /\ maskOut' = mask_sensitive_value(maskKey, maskValue)
    /\ UNCHANGED <<maskKey, maskValue>>
    /\ UNCHANGED notMask

MaskNext == MaskCall

InitMask ==
    /\ MaskInit
    /\ OrchIdle
    /\ SortIdle
    /\ StdioIdle
    /\ CloseIdle
    /\ ProtoIdle
    /\ PingIdle
    /\ MalformedIdle
    /\ RegistryIdle
    /\ ContainerIdle
    /\ SecurityIdle
    /\ CapabilitiesIdle
    /\ ShutdownIdle
    /\ DispatchIdle
    /\ OAuthIdle
    /\ RewrittenIdle
    /\ ConfigIdle
    /\ CreateIdle
    /\ ReadLoopIdle

SpecMask == InitMask /\ [][MaskNext]_vars

\* the key contains one of the sensitive substrings, whatever its case
SensitiveKey(key) ==
    \E n \in DOMAIN sensitive_patterns, i \in DOMAIN key :
        /\ i + Len(sensitive_patterns[n]) - 1 <= Len(key)
        /\ \A j \in DOMAIN sensitive_patterns[n] :
              LowerChar(key[i + j - 1]) = sensitive_patterns[n][j]

\* C17: under a sensitive key a value of length at most 4 is rendered as that
\* many asterisks and a longer one as its first 2 characters, length-4
\* asterisks and its last 2 characters, so the output has the input's length
\* and shows at most 4 of its characters; under any other key the value is
\* returned unchanged.
C17_MaskSensitiveValue ==
    maskPc = "done" =>
        IF SensitiveKey(maskKey)
        THEN /\ Len(maskOut) = Len(maskValue)
             /\ \A i \in DOMAIN maskOut :
                   maskOut[i] = IF Len(maskValue) > 4 /\ (i <= 2 \/ i > Len(maskValue) - 2)
                                THEN maskValue[i] ELSE "*"
        ELSE maskOut = maskValue

C17_Witness ==
    /\ maskPc = "done"
    /\ maskKey = <<"A","P","I","_","K","E","Y">>
    /\ maskValue = <<"a","b","c","d","e","f","g","h","i","j","1","2","3","4">>
    /\ maskOut = <<"a","b","*","*","*","*","*","*","*","*","*","*","3","4">>

-----------------------------------------------------------------------------
(* C18: the sorted list and the order of declaration, checked in SpecSort *)

\* the declaration orders of the validators that sortDecl enables
Reorderings(decl) ==
    {d \in DistinctSeqs(Range(decl), Len(decl)) : Len(d) = Len(decl)}

IsPriority(name) == name \in Range(PriorityNames)
IsEnabledPriority(name) == name \in Range(PriorityNames) /\ name \in Range(sortDecl)
IsOther(name) == name \notin Range(PriorityNames)

\* no enabled validator declares `name` as a dependency
NotDependedOn(name, decl) ==
    \A other \in Range(decl) : name \notin Range(Dependencies(other))

\* C18 as stated: two profiles that enable the same validators in different
\* declaration orders get the same execution order.
C18_AsClaimed ==
    sortPc = "done" =>
        \A d \in Reorderings(sortDecl) : SortValidators(d) = sortState.sorted

\* C18: two profiles that enable the same validators get execution orders
\* with the same validators and the same beginning, the enabled ones of
\* repo_availability, license, runtime_exists, runtime_executable,
\* container_ubi, container_version in that order; the validators after them
\* keep the order of their declaration as far as no enabled validator depends
\* on them.
C18_PriorityOrderFixed ==
    sortPc = "done" =>
        /\ \A d \in Reorderings(sortDecl) :
              LET other == SortValidators(d)
                  fixed == SelectSeq(PriorityNames, IsEnabledPriority)
              IN  /\ Range(other) = Range(sortState.sorted)
                  /\ Len(other) = Len(sortState.sorted)
                  /\ SubSeq(other, 1, Len(fixed)) = fixed
                  /\ SubSeq(sortState.sorted, 1, Len(fixed)) = fixed
        /\ \A i, j \in DOMAIN sortDecl :
              (/\ i < j
               /\ IsOther(sortDecl[i]) /\ IsOther(sortDecl[j])
               /\ NotDependedOn(sortDecl[i], sortDecl)
               /\ NotDependedOn(sortDecl[j], sortDecl))
                  => SortedPos(sortDecl[i]) < SortedPos(sortDecl[j])

\* a sorted profile that declares a priority validator after another
\* validator, and that has a reordering which is sorted differently
C18_Witness ==
    /\ sortPc = "done"
    /\ \E i, j \in DOMAIN sortDecl :
          i < j /\ IsOther(sortDecl[i]) /\ IsPriority(sortDecl[j])
    /\ \E d \in Reorderings(sortDecl) : SortValidators(d) # sortState.sorted

-----------------------------------------------------------------------------
(* C19: when the shared context is filled, checked in Spec *)

ProtocolPassed ==
    \E i \in DOMAIN results :
        results[i].validator_name = "protocol" /\ results[i].passed

ProtocolFailed ==
    \E i \in DOMAIN results :
        results[i].validator_name = "protocol" /\ ~results[i].passed

\* C19: the context's server_info and capabilities are filled only after the
\* protocol validator has completed successfully; after a protocol validator
\* that failed they are still empty and the capabilities validator is not
\* applicable.
C19_ContextOnlyAfterSuccess ==
    /\ (Truthy(context.server_info) \/ Truthy(context.capabilities))
           => ProtocolPassed
    /\ (ProtocolFailed /\ "capabilities" \in Range(profile.decl))
           => ~is_applicable("capabilities", context)

-----------------------------------------------------------------------------
(* SecurityValidator.validate (validators/security.py)                      *)

MaxTools == 2
MaxServers == 2

\* severity_levels in _check_vulnerability_threshold
SeverityLevel(severity) ==
    CASE severity = "low" -> 1 [] severity = "medium" -> 2
      [] severity = "high" -> 3 [] severity = "critical" -> 4 [] OTHER -> 1

\* threshold_level = severity_levels.get(threshold.lower(), 3), for a
\* threshold written in lower case
ThresholdLevel(threshold) ==
    IF threshold \in {"low", "medium", "high", "critical"}
    THEN SeverityLevel(threshold) ELSE 3

\* code.startswith(("TF", "E")) over the codes that occur here
IsCriticalCode(code) == code \in {"E001", "TF001"}

\* the "signature" of a server in the scanner's output: null for a server the
\* scanner could not read, else the number of its tools and the severities of
\* its vulnerabilities
NullSignature == [null |-> TRUE, tools |-> 0, vulnerabilities |-> <<>>]
Signatures ==
    {NullSignature} \cup
    {[null |-> FALSE, tools |-> n, vulnerabilities |-> vs] :
        n \in 0..MaxTools, vs \in {<<>>, <<"critical">>}}

\* the "issues" of one value of the scanner's output, as their codes
IssueLists == {<<>>, <<"W001">>, <<"W001", "TF001">>}

\* one value of the scanner's output: with or without "servers", and its "issues"
ConfigDatas ==
    {[has_servers |-> TRUE, servers |-> ss, issues |-> is] :
        ss \in SeqsUpTo(Signatures, MaxServers), is \in IssueLists}
    \cup {[has_servers |-> FALSE, servers |-> <<>>, issues |-> is] : is \in IssueLists}

\* the ways _run_mcp_scan returns (None, None) after adding a warning: no
\* command_args or endpoint for the transport, a non-zero exit of the scanner,
\* an output that json.loads rejects
NoResultKinds == {"no_command", "exit_nonzero", "unparsable"}

\* the scanner is not installed; _run_mcp_scan returns (None, None) with a
\* warning; it raises (the timeout of wait_for); it returns the parsed output
ScanOutcomes ==
    {[kind |-> k, results |-> <<>>] : k \in {"unavailable", "raised"} \cup NoResultKinds}
    \cup {[kind |-> "results", results |-> <<>>]}
    \cup {[kind |-> "results", results |-> <<c>>] : c \in ConfigDatas}

\* an exception in _parse_scan_results
ParseRaised == [raised |-> TRUE, tools_scanned |-> 0, vulnerabilities |-> <<>>,
                issues |-> <<>>]

\* the loop over config_data["servers"]: signature.get on a null signature raises
RECURSIVE ParseServers(_, _)
ParseServers(servers, acc) ==
    IF servers = <<>> THEN acc
    ELSE IF Head(servers).null THEN ParseRaised
    ELSE ParseServers(Tail(servers),
            [acc EXCEPT !.tools_scanned = @ + Head(servers).tools,
                        !.vulnerabilities = @ \o Head(servers).vulnerabilities])

\* _parse_scan_results: the loop over scan_results.values()
RECURSIVE parse_scan_results(_, _)
parse_scan_results(scan_results, acc) ==
    IF scan_results = <<>> THEN acc
    ELSE LET config_data == Head(scan_results)
             a1 == IF config_data.has_servers
                   THEN ParseServers(config_data.servers, acc) ELSE acc
         IN  IF a1.raised THEN a1
             ELSE parse_scan_results(Tail(scan_results),
                     [a1 EXCEPT !.issues = @ \o config_data.issues])

\* _check_vulnerability_threshold
check_vulnerability_threshold(vulnerabilities, threshold) ==
    \E i \in DOMAIN vulnerabilities :
        SeverityLevel(vulnerabilities[i]) >= ThresholdLevel(threshold)

\* the initial `data` of validate
SecurityData(tools_count) ==
    [has_scan_results |-> FALSE, tools_scanned |-> tools_count,
     vulnerabilities_found |-> 0, risk_levels |-> {}, issues_found |-> 0,
     issue_codes |-> {}]

\* tools_scanned is taken from the scan only when it counted a tool
StoreToolsScannedIfAny(data, tools_scanned) ==
    IF tools_scanned > 0 THEN [data EXCEPT !.tools_scanned = tools_scanned] ELSE data

\* data["tools_scanned"] = tools_scanned
StoreToolsScanned(data, tools_scanned) == [data EXCEPT !.tools_scanned = tools_scanned]

SecurityResult(errors, warnings, data) ==
    [validator_name |-> "security", passed |-> errors = <<>>,
     errors |-> errors, warnings |-> warnings, data |-> data]

\* the body of `if scan_results:` up to the return
ProcessScanResults(scan_results, data, threshold) ==
    LET d0 == [data EXCEPT !.has_scan_results = TRUE]
        parsed == parse_scan_results(scan_results,
                     [raised |-> FALSE, tools_scanned |-> 0,
                      vulnerabilities |-> <<>>, issues |-> <<>>])
    IN  IF parsed.raised
        THEN SecurityResult(<<>>, <<[kind |-> "analysis_failed", codes |-> {}]>>, d0)
        ELSE LET d1 == StoreToolsScanned(d0, parsed.tools_scanned)
                 d2 == IF Len(parsed.vulnerabilities) > 0
                       THEN [d1 EXCEPT !.vulnerabilities_found = Len(parsed.vulnerabilities),
                                       !.risk_levels = Range(parsed.vulnerabilities)]
                       ELSE d1
                 d3 == IF Len(parsed.issues) > 0
                       THEN [d2 EXCEPT !.issues_found = Len(parsed.issues),
                                       !.issue_codes = Range(parsed.issues)]
                       ELSE d2
                 critical_codes == {c \in Range(parsed.issues) : IsCriticalCode(c)}
                 regular_codes == Range(parsed.issues) \ critical_codes
                 errors == IF critical_codes # {}
                           THEN <<[kind |-> "critical_issues", codes |-> critical_codes]>>
                           ELSE <<>>
                 w1 == IF regular_codes # {}
                       THEN <<[kind |-> "issues", codes |-> regular_codes]>>
                       ELSE <<>>
                 w2 == IF check_vulnerability_threshold(parsed.vulnerabilities, threshold)
                       THEN Append(w1, [kind |-> "threshold", codes |-> {}])
                       ELSE w1
             IN  SecurityResult(errors, w2, d3)

SecurityInit ==
    /\ secPc = "ready"
    /\ secThreshold \in {"high", "low"}
    /\ secDiscovered \in 0..MaxTools
    /\ secScan \in ScanOutcomes
    /\ secResult = "none"

\* not self._check_mcp_scan_available(): the early return
SecUnavailable ==
    /\ secPc = "ready"
    /\ secScan.kind = "unavailable"
    /\ secPc' = "done"
    /\ secResult' = SecurityResult(<<>>, <<[kind |-> "not_available", codes |-> {}]>>,
                                   SecurityData(secDiscovered))
    /\ UNCHANGED <<secThreshold, secDiscovered, secScan, notSecurity>>

\* _run_mcp_scan returns (None, None) after adding its warning
SecScanNoResult ==
    /\ secPc = "ready"
    /\ secScan.kind \in NoResultKinds
    /\ secPc' = "done"
    /\ secResult' = SecurityResult(<<>>, <<[kind |-> secScan.kind, codes |-> {}]>>,
                                   SecurityData(secDiscovered))
    /\ UNCHANGED <<secThreshold, secDiscovered, secScan, notSecurity>>

\* _run_mcp_scan raises: the except branch of validate
SecScanRaises ==
    /\ secPc = "ready"
    /\ secScan.kind = "raised"
    /\ secPc' = "done"
    /\ secResult' = SecurityResult(<<>>, <<[kind |-> "analysis_failed", codes |-> {}]>>,
                                   SecurityData(secDiscovered))
    /\ UNCHANGED <<secThreshold, secDiscovered, secScan, notSecurity>>

\* _run_mcp_scan returns the scanner's output
SecScanReturns ==
    /\ secPc = "ready"
    /\ secScan.kind = "results"
    /\ secPc' = "done"
    /\ secResult' = IF secScan.results = <<>>
                    THEN SecurityResult(<<>>, <<>>, SecurityData(secDiscovered))
                    ELSE ProcessScanResults(secScan.results,
                                            SecurityData(secDiscovered), secThreshold)
    /\ UNCHANGED <<secThreshold, secDiscovered, secScan, notSecurity>>

SecurityNext == SecUnavailable \/ SecScanNoResult \/ SecScanRaises \/ SecScanReturns

InitSecurity ==
    /\ SecurityInit
    /\ OrchIdle
    /\ SortIdle
    /\ StdioIdle
    /\ CloseIdle
    /\ ProtoIdle
    /\ PingIdle
    /\ MalformedIdle
    /\ RegistryIdle
    /\ ContainerIdle
    /\ MaskIdle
    /\ CapabilitiesIdle
    /\ ShutdownIdle
    /\ DispatchIdle
    /\ OAuthIdle
    /\ RewrittenIdle
    /\ ConfigIdle
    /\ CreateIdle
    /\ ReadLoopIdle

SpecSecurity == InitSecurity /\ [][SecurityNext]_vars

\* every server entry of the scanner's output, in order
RECURSIVE ScannedServers(_)
ScannedServers(scan_results) ==
    IF scan_results = <<>> THEN <<>>
    ELSE (IF Head(scan_results).has_servers THEN Head(scan_results).servers ELSE <<>>)
         \o ScannedServers(Tail(scan_results))

\* the tools the scanner's output lists
RECURSIVE ToolsListed(_)
ToolsListed(servers) ==
    IF servers = <<>> THEN 0
    ELSE Head(servers).tools + ToolsListed(Tail(servers))

\* the scanner ran and gave an output with at least one entry
ScanHasOutput == secScan.kind = "results" /\ secScan.results # <<>>

\* every server of the scanner's output has a signature
ScanReadable ==
    \A i \in DOMAIN ScannedServers(secScan.results) :
        ~ScannedServers(secScan.results)[i].null

\* C20 as stated: tools_scanned is the count summed from the scanner output
\* when the scan reports tools and the number of discovered tools when it
\* reports none, a successful scan that lists zero tools included.
C20_AsClaimed ==
    (secPc = "done" /\ ScanReadable) =>
        LET listed == ToolsListed(ScannedServers(secScan.results))
        IN  secResult.data.tools_scanned =
                IF ScanHasOutput /\ listed > 0 THEN listed ELSE secDiscovered

\* C20: tools_scanned is the count summed from the scanner output whenever the
\* scan gave a non-empty output that could be read through, zero included; it
\* is the number of discovered tools when the scanner is missing, gave no
\* output or an empty one, or its output has a server without a signature.
C20_ToolsScanned ==
    secPc = "done" =>
        secResult.data.tools_scanned =
            IF ScanHasOutput /\ ScanReadable
            THEN ToolsListed(ScannedServers(secScan.results))
            ELSE secDiscovered

\* a scan that ran, listed a server with zero tools, while the capabilities
\* validator had discovered tools
C20_Witness ==
    /\ secPc = "done"
    /\ ScanHasOutput
    /\ ScannedServers(secScan.results) # <<>>
    /\ ScanReadable
    /\ ToolsListed(ScannedServers(secScan.results)) = 0
    /\ secDiscovered > 0
    /\ secResult.data.tools_scanned = 0

-----------------------------------------------------------------------------
(* CapabilitiesValidator.validate (validators/capabilities.py), one list    *)
(* request per step                                                          *)

MaxItems == 2

\* the three list requests in the order validate makes them
ListRequests == <<"resources", "tools", "prompts">>

\* an element of the list a server returns: a dict with "name", a string, or
\* anything else
ListItems ==
    {[kind |-> k, name |-> n] : k \in {"dict", "str"}, n \in {"a", "b"}}
    \cup {[kind |-> "other", name |-> ""]}

\* how a list request ends without a list: an error response, a response
\* without "result", a result that is null (the `in` test raises TypeError), a
\* result without the field, a field that is no list, a timeout, an exception
\* whose text mentions the connection, any other exception
ListFailures ==
    {"error_response", "missing_result", "null_result", "missing_field",
     "not_a_list", "timeout", "connection_lost", "exception"}

ListOutcomes ==
    {[kind |-> k, items |-> <<>>] : k \in ListFailures}
    \cup {[kind |-> "list", items |-> is] : is \in SeqsUpTo(ListItems, MaxItems)}

\* the loop over items: names of dicts with "name" and of strings
RECURSIVE ItemNames(_)
ItemNames(items) ==
    IF items = <<>> THEN <<>>
    ELSE (IF Head(items).kind \in {"dict", "str"} THEN <<Head(items).name>> ELSE <<>>)
         \o ItemNames(Tail(items))

\* a failed list request counted as an error of the validator
RecordListFailureAsError(st, method, kind) ==
    [st EXCEPT !.errors = Append(@, [kind |-> kind, method |-> method])]

\* warnings.append(...) of every branch of _test_list_request that found no list
RecordListFailure(st, method, kind) ==
    [st EXCEPT !.warnings = Append(@, [kind |-> kind, method |-> method])]

\* _test_list_request on st = [errors, warnings, items]
test_list_request(st, method, outcome, max_items) ==
    IF outcome.kind # "list" THEN RecordListFailure(st, method, outcome.kind)
    ELSE LET names == st.items \o ItemNames(outcome.items) IN
         IF Len(names) > max_items
         THEN [st EXCEPT !.items = SubSeq(names, 1, max_items),
                         !.warnings = Append(@, [kind |-> "limited", method |-> method])]
         ELSE [st EXCEPT !.items = names]

FreshCapabilitiesData ==
    [resources |-> <<>>, tools |-> <<>>, prompts |-> <<>>, tested_capabilities |-> <<>>]

\* the step after a list request
NextListRequest(current) ==
    CASE current = "resources" -> "tools"
      [] current = "tools" -> "prompts"
      [] OTHER -> "return"

CapabilitiesInit ==
    /\ capPc = "resources"
    /\ capAdvertised \in (SUBSET Range(ListRequests)) \ {{}}
    /\ capMaxItems \in {1, 100}
    /\ capRequests = <<>>
    /\ capErrors = <<>>
    /\ capWarnings = <<>>
    /\ capData = FreshCapabilitiesData
    /\ capResult = "none"

\* `if "<field>" in context.capabilities` is false
CapNotAdvertised ==
    /\ capPc \in Range(ListRequests)
    /\ capPc \notin capAdvertised
    /\ capPc' = NextListRequest(capPc)
    /\ UNCHANGED <<capAdvertised, capMaxItems, capRequests, capErrors, capWarnings,
                   capData, capResult>>
    /\ UNCHANGED notCapabilities

\* _test_<field>_list and data["tested_capabilities"].append
CapListRequest ==
    /\ capPc \in Range(ListRequests)
    /\ capPc \in capAdvertised
    /\ \E outcome \in ListOutcomes :
         LET st == test_list_request(
                      [errors |-> capErrors, warnings |-> capWarnings,
                       items |-> capData[capPc]],
                      capPc, outcome, capMaxItems)
         IN  /\ capErrors' = st.errors
             /\ capWarnings' = st.warnings
             /\ capData' = [capData EXCEPT ![capPc] = st.items,
                                           !.tested_capabilities = Append(@, capPc)]
             /\ capRequests' = Append(capRequests, [method |-> capPc, kind |-> outcome.kind])
    /\ capPc' = NextListRequest(capPc)
    /\ UNCHANGED <<capAdvertised, capMaxItems, capResult>>
    /\ UNCHANGED notCapabilities

\* return ValidatorResult(passed=len(errors) == 0, ...)
CapReturn ==
    /\ capPc = "return"
    /\ capPc' = "done"
    /\ capResult' = [validator_name |-> "capabilities", passed |-> capErrors = <<>>,
                     errors |-> capErrors, warnings |-> capWarnings, data |-> capData]
    /\ UNCHANGED <<capAdvertised, capMaxItems, capRequests, capErrors, capWarnings,
                   capData>>
    /\ UNCHANGED notCapabilities

CapabilitiesNext == CapNotAdvertised \/ CapListRequest \/ CapReturn

InitCapabilities ==
    /\ CapabilitiesInit
    /\ OrchIdle
    /\ SortIdle
    /\ StdioIdle
    /\ CloseIdle
    /\ ProtoIdle
    /\ PingIdle
    /\ MalformedIdle
    /\ RegistryIdle
    /\ ContainerIdle
    /\ MaskIdle
    /\ SecurityIdle
    /\ ShutdownIdle
    /\ DispatchIdle
    /\ OAuthIdle
    /\ RewrittenIdle
    /\ ConfigIdle
    /\ CreateIdle
    /\ ReadLoopIdle

SpecCapabilities == InitCapabilities /\ [][CapabilitiesNext]_vars

\* the capabilities validator or the security validator runs
InitSoft == InitCapabilities \/ InitSecurity

NextSoft ==
    \/ CapNotAdvertised \/ CapListRequest \/ CapReturn
    \/ SecUnavailable \/ SecScanNoResult \/ SecScanRaises \/ SecScanReturns

SpecSoft == InitSoft /\ [][NextSoft]_vars

\* C21: in the capabilities validator every failure of a list request (error
\* response, missing or non-list field, timeout, transport exception) and in
\* the security validator the scanner's absence, non-zero exit, timeout or
\* unparsable output is recorded as a warning, adds nothing to the result's
\* errors and leaves passed true.
C21_SoftDegradations ==
    /\ capPc = "done" =>
          /\ capResult.errors = <<>>
          /\ capResult.passed
          /\ \A i \in DOMAIN capRequests :
                capRequests[i].kind \in ListFailures =>
                    \E j \in DOMAIN capResult.warnings :
                        /\ capResult.warnings[j].method = capRequests[i].method
                        /\ capResult.warnings[j].kind = capRequests[i].kind
    /\ (secPc = "done"
        /\ secScan.kind \in {"unavailable", "exit_nonzero", "raised", "unparsable"}) =>
          /\ secResult.errors = <<>>
          /\ secResult.passed
          /\ secResult.warnings # <<>>

\* a capabilities validator that returned after a timeout and an error response
C21_Witness ==
    /\ capPc = "done"
    /\ \E i, j \in DOMAIN capRequests :
          capRequests[i].kind = "timeout" /\ capRequests[j].kind = "error_response"
    /\ capResult.passed
    /\ Len(capResult.warnings) >= 2

-----------------------------------------------------------------------------
(* StdioTransport.close (core/transport.py), one call or await per step,    *)
(* against a subprocess that exits when it likes.  The event loop learns of  *)
(* an exit only while close is suspended in an await; once it has, returncode *)
(* is set and terminate() and kill() raise ProcessLookupError.               *)

\* the timeout of wait_for, in seconds
WaitSeconds == 5

\* the awaits of close: stdin.wait_closed(), wait_for(process.wait()), the
\* cancellation of the wait at the timeout, the last process.wait()
ShutdownAwaits == {"stdin_wait", "wait", "timeout", "wait2"}

\* the wait gives up at once
TimeoutReachedAtOnce(waited) == TRUE

\* wait_for(..., timeout=5.0) gives up
TimeoutReached(waited) == waited >= WaitSeconds

ShutdownInit ==
    /\ scPc = "check"
    /\ scProc \in {"running", "exited", "reaped"}
    /\ scWaited = 0
    /\ scLog = <<>>
    /\ scExitedAt = IF scProc = "running" THEN "" ELSE "before"

\* the subprocess exits: by itself, at the end of its input or on SIGTERM
ScProcessExits ==
    /\ scPc \notin {"off", "returned", "raised"}
    /\ scProc = "running"
    /\ scProc' = "exited"
    /\ scExitedAt' = scPc
    /\ UNCHANGED <<scPc, scWaited, scLog, notShutdown>>

\* the event loop handles the exit while close is suspended
ScLoopReaps ==
    /\ scPc \in ShutdownAwaits
    /\ scProc = "exited"
    /\ scProc' = "reaped"
    /\ UNCHANGED <<scPc, scWaited, scLog, scExitedAt, notShutdown>>

\* if self.process and self.process.returncode is None
ScCheck ==
    /\ scPc = "check"
    /\ scPc' = IF scProc = "reaped" THEN "returned" ELSE "stdin"
    /\ UNCHANGED <<scProc, scWaited, scLog, scExitedAt, notShutdown>>

\* self.process.stdin.close(); an exception is passed over
ScCloseStdin ==
    /\ scPc = "stdin"
    /\ \E raises \in BOOLEAN :
         IF raises
         THEN scLog' = Append(scLog, "stdin.close!") /\ scPc' = "terminate"
         ELSE scLog' = Append(scLog, "stdin.close") /\ scPc' = "stdin_wait"
    /\ UNCHANGED <<scProc, scWaited, scExitedAt, notShutdown>>

\* await self.process.stdin.wait_closed() returns or raises
ScStdinClosed ==
    /\ scPc = "stdin_wait"
    /\ scPc' = "terminate"
    /\ UNCHANGED <<scProc, scWaited, scLog, scExitedAt, notShutdown>>

\* self.process.terminate()
ScTerminate ==
    /\ scPc = "terminate"
    /\ IF scProc = "reaped"
       THEN scLog' = Append(scLog, "terminate!") /\ scPc' = "raised"
       ELSE scLog' = Append(scLog, "terminate") /\ scPc' = "wait"
    /\ UNCHANGED <<scProc, scWaited, scExitedAt, notShutdown>>

\* a second passes in wait_for
ScTick ==
    /\ scPc = "wait"
    /\ scProc # "reaped"
    /\ scWaited < WaitSeconds
    /\ scWaited' = scWaited + 1
    /\ UNCHANGED <<scPc, scProc, scLog, scExitedAt, notShutdown>>

\* process.wait() completes inside wait_for
ScWaitReturns ==
    /\ scPc = "wait"
    /\ scProc = "reaped"
    /\ scPc' = "returned"
    /\ scLog' = Append(scLog, "wait")
    /\ UNCHANGED <<scProc, scWaited, scExitedAt, notShutdown>>

\* the timeout of wait_for: the wait is cancelled
ScWaitTimeout ==
    /\ scPc = "wait"
    /\ scProc # "reaped"
    /\ TimeoutReached(scWaited)
    /\ scPc' = "timeout"
    /\ scLog' = Append(scLog, "wait.timeout")
    /\ UNCHANGED <<scProc, scWaited, scExitedAt, notShutdown>>

\* except asyncio.TimeoutError: self.process.kill()
ScKill ==
    /\ scPc = "timeout"
    /\ IF scProc = "reaped"
       THEN /\ scLog' = Append(scLog, "kill!")
            /\ scPc' = "raised"
            /\ UNCHANGED <<scProc, scExitedAt>>
       ELSE /\ scLog' = Append(scLog, "kill")
            /\ scPc' = "wait2"
            /\ scProc' = "exited"
            /\ scExitedAt' = IF scProc = "running" THEN "kill" ELSE scExitedAt
    /\ UNCHANGED <<scWaited, notShutdown>>

\* await self.process.wait() after the kill
ScWaitAfterKill ==
    /\ scPc = "wait2"
    /\ scProc = "reaped"
    /\ scPc' = "returned"
    /\ scLog' = Append(scLog, "wait")
    /\ UNCHANGED <<scProc, scWaited, scExitedAt, notShutdown>>

ShutdownNext ==
    \/ ScProcessExits \/ ScLoopReaps \/ ScCheck \/ ScCloseStdin \/ ScStdinClosed
    \/ ScTerminate \/ ScTick \/ ScWaitReturns \/ ScWaitTimeout \/ ScKill
    \/ ScWaitAfterKill

InitShutdown ==
    /\ ShutdownInit
    /\ OrchIdle
    /\ SortIdle
    /\ StdioIdle
    /\ CloseIdle
    /\ ProtoIdle
    /\ PingIdle
    /\ MalformedIdle
    /\ RegistryIdle
    /\ ContainerIdle
    /\ MaskIdle
    /\ SecurityIdle
    /\ CapabilitiesIdle
    /\ DispatchIdle
    /\ OAuthIdle
    /\ RewrittenIdle
    /\ ConfigIdle
    /\ CreateIdle
    /\ ReadLoopIdle

SpecShutdown == InitShutdown /\ [][ShutdownNext]_vars

\* the positions in scLog of a call, made or failed
LogPositions(calls) == {i \in DOMAIN scLog : scLog[i] \in calls}

\* C22: close on a subprocess whose exit has not been seen first closes stdin,
\* errors ignored, then requests termination, then waits up to 5 seconds and
\* kills only if the process has not exited by then; the kill never precedes
\* the terminate request, and when close returns the subprocess has exited.
C22_ShutdownOrder ==
    /\ scLog # <<>> => scLog[1] \in {"stdin.close", "stdin.close!"}
    /\ Len(scLog) >= 2 => scLog[2] \in {"terminate", "terminate!"}
    /\ Len(scLog) >= 3 =>
          /\ scLog[2] = "terminate"
          /\ scLog[3] \in {"wait", "wait.timeout"}
    /\ \A i \in LogPositions({"kill", "kill!"}) :
          /\ i = 4
          /\ scLog[3] = "wait.timeout"
          /\ scWaited = WaitSeconds
    /\ \A i \in LogPositions({"wait.timeout"}) : scWaited = WaitSeconds
    /\ scPc = "returned" => scProc = "reaped"
    /\ (scPc = "returned" /\ scLog # <<>>) => scLog[Len(scLog)] = "wait"

\* close returned after the process ignored the terminate request for the
\* whole wait and was killed, stdin.close having raised
C22_Witness ==
    /\ scPc = "returned"
    /\ scLog = <<"stdin.close!", "terminate", "wait.timeout", "kill", "wait">>
    /\ scProc = "reaped"

-----------------------------------------------------------------------------
(* validate_server's choice between _execute_validators_parallel and        *)
(* _execute_validators_sequential (core/validator.py), on the orchestrator's *)
(* variables, for a run whose server and validators behave in a fixed way    *)

MaxDispatch == 2

\* the initialize responses of these runs: a good one, one with an
\* unsupported version, a timeout
DispatchResponses ==
    {r \in SessionResponses :
        \/ r.kind = "timeout"
        \/ /\ r.kind = "message" /\ ~r.hasError
           /\ r.result.caps = Obj(CapsMap) /\ r.result.sinfo = Obj(ServerInfoMap)}

\* what validator.validate(context) does in the run: [raised, msg, result, context]
ValidateAs(name, ctx, outcomes, response) ==
    IF name = "protocol"
    THEN LET v == ProtocolValidate(ctx, response, TRUE)
         IN  [raised |-> FALSE, msg |-> "", result |-> v.result, context |-> v.context]
    ELSE [raised |-> outcomes[name] = "raise", msg |-> "boom",
          result |-> IF outcomes[name] = "pass"
                     THEN ValidatorResult(name, TRUE, <<>>, NoData)
                     ELSE ValidatorResult(name, FALSE,
                              <<Err("validator_error", <<name>>)>>, NoData),
          context |-> ctx]

\* the loop of _execute_validators_sequential from validator i on:
\* [results, context, started]
RECURSIVE execute_validators_sequential(_, _, _, _, _, _)
execute_validators_sequential(vals, i, st, prof, outcomes, response) ==
    IF i > Len(vals) THEN st
    ELSE IF ~is_applicable(vals[i], st.context)
    THEN execute_validators_sequential(vals, i + 1, st, prof, outcomes, response)
    ELSE LET step == ExecuteStep(prof, vals[i],
                         ValidateAs(vals[i], st.context, outcomes, response),
                         st.results)
             st1 == [results |-> step.results, context |-> step.context,
                     started |-> Append(st.started, vals[i])]
         IN  IF step.stop THEN st1
             ELSE execute_validators_sequential(vals, i + 1, st1, prof, outcomes,
                                                response)

\* a parallel routine that runs every validator whatever the others returned
RoutineStopsSequentialOnly(via, stop) == stop /\ via = <<"sequential">>

\* the break of the routine that is executing
RoutineStops(via, stop) == stop

\* the state when validate_server reaches `if profile.parallel_execution`
DispatchInit ==
    /\ profile \in {p \in Profiles : Len(p.decl) <= MaxDispatch}
    /\ cfgApplicable \in [Range(profile.decl) -> BOOLEAN]
    /\ \A n \in Range(profile.decl) \ ConfigGated : cfgApplicable[n]
    /\ transportType = "stdio"
    /\ pc = "dispatch"
    /\ transport = NewTransport("stdio")
    /\ closeCalls = 0
    /\ validators = SortValidators(profile.decl)
    /\ idx = 1
    /\ results = <<>>
    /\ started = <<>>
    /\ escaped = <<>>
    /\ context = FreshContext
    /\ session = [returned |-> FALSE, overall_success |-> FALSE,
                  validator_results |-> <<>>, errors |-> <<>>]
    /\ sessionErrors = <<>>
    /\ failure = "none"
    /\ exitCode = -1
    /\ dpVia = <<>>
    /\ dpOutcomes \in [Range(profile.decl) -> ValidateOutcomes]
    /\ dpResponse \in DispatchResponses
    /\ dpRunning = {}

\* if profile.parallel_execution: await self._execute_validators_parallel(...)
DpCallParallel ==
    /\ pc = "dispatch"
    /\ profile.parallel_execution
    /\ dpVia' = <<"parallel">>
    /\ pc' = "parallel"
    /\ UNCHANGED <<profile, cfgApplicable, transportType, transport, closeCalls,
                   validators, idx, results, started, escaped, context, session,
                   sessionErrors, failure, exitCode>>
    /\ UNCHANGED <<dpOutcomes, dpResponse, dpRunning, notOrchDispatch>>

\* _execute_validators_parallel: return await self._execute_validators_sequential(...)
DpParallelDelegates ==
    /\ pc = "parallel"
    /\ dpVia' = Append(dpVia, "sequential")
    /\ pc' = "exec"
    /\ UNCHANGED <<profile, cfgApplicable, transportType, transport, closeCalls,
                   validators, idx, results, started, escaped, context, session,
                   sessionErrors, failure, exitCode>>
    /\ UNCHANGED <<dpOutcomes, dpResponse, dpRunning, notOrchDispatch>>

\* else: await self._execute_validators_sequential(...)
DpCallSequential ==
    /\ pc = "dispatch"
    /\ ~profile.parallel_execution
    /\ dpVia' = <<"sequential">>
    /\ pc' = "exec"
    /\ UNCHANGED <<profile, cfgApplicable, transportType, transport, closeCalls,
                   validators, idx, results, started, escaped, context, session,
                   sessionErrors, failure, exitCode>>
    /\ UNCHANGED <<dpOutcomes, dpResponse, dpRunning, notOrchDispatch>>

\* the loop: result = await validator.validate(context) begins
DpValidateBegins ==
    /\ pc = "exec"
    /\ idx <= Len(validators)
    /\ is_applicable(validators[idx], context)
    /\ dpRunning' = dpRunning \cup {validators[idx]}
    /\ started' = Append(started, validators[idx])
    /\ pc' = "validate"
    /\ UNCHANGED <<profile, cfgApplicable, transportType, transport, closeCalls,
                   validators, idx, results, escaped, context, session,
                   sessionErrors, failure, exitCode>>
    /\ UNCHANGED <<dpVia, dpOutcomes, dpResponse, notOrchDispatch>>

\* the loop: validate returned or raised; the rest of the iteration
DpValidateEnds ==
    /\ pc = "validate"
    /\ LET name == validators[idx]
           out == ValidateAs(name, context, dpOutcomes, dpResponse)
           step == ExecuteStep(profile, name, out, results)
       IN  /\ results' = step.results
           /\ context' = step.context
           /\ escaped' = IF out.raised
                         THEN Append(escaped, [name |-> name, msg |-> out.msg])
                         ELSE escaped
           /\ pc' = IF RoutineStops(dpVia, step.stop) THEN "cleanup" ELSE "exec"
           /\ idx' = IF RoutineStops(dpVia, step.stop) THEN idx ELSE idx + 1
           /\ dpRunning' = dpRunning \ {name}
    /\ UNCHANGED <<profile, cfgApplicable, transportType, transport, closeCalls,
                   validators, started, session, sessionErrors, failure, exitCode>>
    /\ UNCHANGED <<dpVia, dpOutcomes, dpResponse, notOrchDispatch>>

DispatchNext ==
    \/ DpCallParallel \/ DpParallelDelegates \/ DpCallSequential
    \/ SkipValidator \/ DpValidateBegins \/ DpValidateEnds \/ LoopEnds

InitDispatch ==
    /\ DispatchInit
    /\ SortIdle
    /\ StdioIdle
    /\ CloseIdle
    /\ ProtoIdle
    /\ PingIdle
    /\ MalformedIdle
    /\ RegistryIdle
    /\ ContainerIdle
    /\ MaskIdle
    /\ SecurityIdle
    /\ CapabilitiesIdle
    /\ ShutdownIdle
    /\ OAuthIdle
    /\ RewrittenIdle
    /\ ConfigIdle
    /\ CreateIdle
    /\ ReadLoopIdle

SpecDispatch == InitDispatch /\ [][DispatchNext]_vars

\* C23: a profile with parallel_execution true runs as the same profile with
\* parallel_execution false: the validators execute one at a time in the same
\* order with the same context updates, the same stop at a failed required
\* validator and the same result list.
C23_ParallelIsSequential ==
    /\ Cardinality(dpRunning) <= 1
    /\ pc \in {"exec", "validate", "cleanup"} => dpVia[Len(dpVia)] = "sequential"
    /\ pc = "cleanup" =>
          LET run == execute_validators_sequential(
                        validators, 1,
                        [results |-> <<>>, context |-> FreshContext, started |-> <<>>],
                        [profile EXCEPT !.parallel_execution = FALSE],
                        dpOutcomes, dpResponse)
          IN  /\ results = run.results
              /\ context = run.context
              /\ started = run.started

\* a parallel profile whose first validator is required and failed, so that
\* the run stopped before the second
C23_Witness ==
    /\ pc = "cleanup"
    /\ profile.parallel_execution
    /\ ~profile.continue_on_failure
    /\ dpVia = <<"parallel", "sequential">>
    /\ Len(validators) = 2
    /\ Len(results) = 1
    /\ ~results[1].passed
    /\ profile.required[results[1].validator_name]

-----------------------------------------------------------------------------
(* C24: the result list of a run, checked in Spec *)

\* C24: the result list holds at most one ValidatorResult per validator that
\* ran, in execution order, also when the copy of the protocol result's data
\* into the context raises after the validator's result was appended.
C24_OneResultPerValidator ==
    /\ Len(results) <= Len(started)
    /\ \A i, j \in DOMAIN results :
          i # j => results[i].validator_name # results[j].validator_name

-----------------------------------------------------------------------------
(* HTTPTransport._start_oauth_callback_server (core/http_transport.py): the  *)
(* polling loop of the event loop thread and the do_GET of the listener      *)
(* thread, one read or write of callback_data per step                       *)

MaxRedirects == 2
MaxPolls == 2

\* the query of a redirect request as do_GET reads it; "None" is a parameter
\* that is not there
Redirects ==
    {[code |-> "c1", state |-> "s1", error |-> "None"],
     [code |-> "c2", state |-> "s2", error |-> "None"],
     [code |-> "c3", state |-> "None", error |-> "None"],
     [code |-> "None", state |-> "None", error |-> "denied"]}

FreshCallbackData == [authorization_code |-> "None", state |-> "None", error |-> "None"]

OAuthInit ==
    /\ oaPc = "test_code"
    /\ oaCallback = FreshCallbackData
    /\ oaPending \in SeqsUpTo(Redirects, MaxRedirects)
    /\ oaHandled = <<>>
    /\ oaHandler = "idle"
    /\ oaPolls = 0
    /\ oaReturned = [authorization_code |-> "None", state |-> "None"]

\* the server is serving: the wait has neither returned nor raised
Serving == oaPc \notin {"off", "returned", "raised"}

\* do_GET, "code" in query_params: callback_data["authorization_code"] = ...
OaWriteCode ==
    /\ Serving
    /\ oaHandler = "idle"
    /\ oaPending # <<>>
    /\ Head(oaPending).code # "None"
    /\ oaCallback' = [oaCallback EXCEPT !.authorization_code = Head(oaPending).code]
    /\ oaHandled' = Append(oaHandled, Head(oaPending))
    /\ oaPending' = Tail(oaPending)
    /\ oaHandler' = "state"
    /\ UNCHANGED <<oaPc, oaPolls, oaReturned, notOAuth>>

\* do_GET: callback_data["state"] = query_params.get("state", [None])[0]
OaWriteState ==
    /\ oaHandler = "state"
    /\ oaCallback' = [oaCallback EXCEPT !.state = oaHandled[Len(oaHandled)].state]
    /\ oaHandler' = "idle"
    /\ UNCHANGED <<oaPc, oaPending, oaHandled, oaPolls, oaReturned, notOAuth>>

\* do_GET, "error" in query_params: callback_data["error"] = ...
OaWriteError ==
    /\ Serving
    /\ oaHandler = "idle"
    /\ oaPending # <<>>
    /\ Head(oaPending).code = "None"
    /\ oaCallback' = [oaCallback EXCEPT !.error = Head(oaPending).error]
    /\ oaHandled' = Append(oaHandled, Head(oaPending))
    /\ oaPending' = Tail(oaPending)
    /\ UNCHANGED <<oaPc, oaHandler, oaPolls, oaReturned, notOAuth>>

\* if callback_data["authorization_code"]:
OaTestCode ==
    /\ oaPc = "test_code"
    /\ oaPc' = IF oaCallback.authorization_code # "None" THEN "read_code" ELSE "test_error"
    /\ UNCHANGED <<oaCallback, oaPending, oaHandled, oaHandler, oaPolls, oaReturned,
                   notOAuth>>

\* return callback_data["authorization_code"], ...: the first element
OaReadCode ==
    /\ oaPc = "read_code"
    /\ oaReturned' = [oaReturned EXCEPT !.authorization_code = oaCallback.authorization_code]
    /\ oaPc' = "read_state"
    /\ UNCHANGED <<oaCallback, oaPending, oaHandled, oaHandler, oaPolls, notOAuth>>

\* return ..., callback_data["state"]: the second element, and the return
OaReadState ==
    /\ oaPc = "read_state"
    /\ oaReturned' = [oaReturned EXCEPT !.state = oaCallback.state]
    /\ oaPc' = "returned"
    /\ UNCHANGED <<oaCallback, oaPending, oaHandled, oaHandler, oaPolls, notOAuth>>

\* elif callback_data["error"]: raise Exception(...)
OaTestError ==
    /\ oaPc = "test_error"
    /\ oaPc' = IF oaCallback.error # "None" THEN "raised" ELSE "sleep"
    /\ UNCHANGED <<oaCallback, oaPending, oaHandled, oaHandler, oaPolls, oaReturned,
                   notOAuth>>

\* await asyncio.sleep(0.1) and the loop condition; the timeout raises
OaSleep ==
    /\ oaPc = "sleep"
    /\ oaPolls' = oaPolls + 1
    /\ oaPc' = IF oaPolls + 1 >= MaxPolls THEN "raised" ELSE "test_code"
    /\ UNCHANGED <<oaCallback, oaPending, oaHandled, oaHandler, oaReturned, notOAuth>>

OAuthNext ==
    \/ OaWriteCode \/ OaWriteState \/ OaWriteError
    \/ OaTestCode \/ OaReadCode \/ OaReadState \/ OaTestError \/ OaSleep

InitOAuth ==
    /\ OAuthInit
    /\ OrchIdle
    /\ SortIdle
    /\ StdioIdle
    /\ CloseIdle
    /\ ProtoIdle
    /\ PingIdle
    /\ MalformedIdle
    /\ RegistryIdle
    /\ ContainerIdle
    /\ MaskIdle
    /\ SecurityIdle
    /\ CapabilitiesIdle
    /\ ShutdownIdle
    /\ DispatchIdle
    /\ RewrittenIdle
    /\ ConfigIdle
    /\ CreateIdle
    /\ ReadLoopIdle

SpecOAuth == InitOAuth /\ [][OAuthNext]_vars

\* C25: the (authorization code, state) pair that the wait returns is the
\* code and the state of one and the same redirect request.
C25_PairOfOneRedirect ==
    oaPc = "returned" =>
        \E i \in DOMAIN oaHandled :
            /\ oaHandled[i].code = oaReturned.authorization_code
            /\ oaHandled[i].state = oaReturned.state

-----------------------------------------------------------------------------
(* A required validator that is not applicable when its turn comes *)

\* the loop is at a validator whose is_applicable is false
AtInapplicable ==
    /\ pc = "exec"
    /\ idx <= Len(validators)
    /\ ~is_applicable(validators[idx], context)

\* validator n was passed over: the loop is beyond it and it never started
PassedOver(n) ==
    /\ n \in Range(validators)
    /\ IndexOf(validators, n) < idx
    /\ n \notin Range(started)

\* C26: a validator, required or not, whose is_applicable is false when its
\* turn comes is skipped: the loop's step (any step but an interruption of
\* the run) adds no result, starts nothing and goes on to the next validator
\* instead of stopping; a validator that was passed over has no result, and
\* a returned session whose results all passed is successful although a
\* required validator never ran
C26_RequiredInapplicableSkipped ==
    /\ [][(AtInapplicable /\ failure' = failure) =>
            /\ results' = results
            /\ started' = started
            /\ pc' = "exec"
            /\ idx' = idx + 1]_vars
    /\ [](\A n \in Range(validators) :
            PassedOver(n) =>
                \A i \in DOMAIN results : results[i].validator_name # n)
    /\ []((session.returned /\ \A i \in DOMAIN results : results[i].passed)
            => session.overall_success)

\* fail-fast is on, a required validator was passed over, a validator after
\* it ran, and the session succeeded
C26_Witness ==
    /\ session.returned
    /\ session.overall_success
    /\ ~profile.continue_on_failure
    /\ \E n \in Range(validators) :
         /\ profile.required[n]
         /\ PassedOver(n)
         /\ \E m \in Range(started) :
              IndexOf(validators, m) > IndexOf(validators, n)

-----------------------------------------------------------------------------
(* Injection and extraction on the same command *)

\* the 1-based position of the first token after 'run' that is neither an
\* option nor the value of a listed option
FirstCandidate(command_args) ==
    CHOOSE p \in ImageCandidates(command_args) :
        \A q \in ImageCandidates(command_args) : p <= q

\* C27: for a docker/podman run command in which extraction finds an image
\* and a non-empty env-var map, the rewritten command is the original with
\* the -e KEY=VALUE pairs, and nothing else, inserted in one block at the
\* position of the token that extraction returns as the image, every original
\* token kept in its order; extraction on the rewritten command returns the
\* same image.
C27_InjectionKeepsImage ==
    ({"inject", "extract", "reextract"} \subseteq ctDone
        /\ IsRunCommand(ctCommand) /\ ctEnv # <<>> /\ ctImage.present)
        => LET p == FirstCandidate(ctCommand) IN
           /\ ctImage = Some(ctCommand[p])
           /\ ctInjected = SubSeq(ctCommand, 1, p - 1) \o EnvOptions(ctEnv)
                               \o SubSeq(ctCommand, p, Len(ctCommand))
           /\ rwImage = ctImage

\* two variables injected into a command with a listed option, a flag and
\* arguments after the image
C27_Witness ==
    /\ {"inject", "extract", "reextract"} \subseteq ctDone
    /\ ctCommand = <<"podman", "run", "-e", "A=1", "--rm", "myrepo/myimage:1.2", "--stdio">>
    /\ Len(ctEnv) = 2
    /\ ctInjected = <<"podman", "run", "-e", "A=1", "--rm", "-e", "FOO=bar",
                      "-e", "TOKEN=s3", "myrepo/myimage:1.2", "--stdio">>
    /\ rwImage = Some("myrepo/myimage:1.2")

-----------------------------------------------------------------------------
(* ConfigurationManager (config/settings.py): the profile map and the name  *)
(* of the active profile                                                     *)

MaxConfigCalls == 3
MaxFileProfiles == 2

\* the keys of DEFAULT_PROFILES
DefaultProfileNames ==
    {"basic", "comprehensive", "security_focused", "development", "fail_fast"}

\* names a config file or a caller can use
ProfileNames == {"basic", "custom", "staging"}

\* one entry of "profiles" in a config file; valid is FALSE when
\* ValidatorConfig(**validator_data) or profile_data.get raises on it
FileProfiles == [name : ProfileNames, valid : BOOLEAN]

\* a config file: readable is FALSE when open() or json.load raises;
\* active is the value of "active_profile", "None" when the key is absent
ConfigFiles ==
    [readable : BOOLEAN,
     profiles : {s \in SeqsUpTo(FileProfiles, MaxFileProfiles) :
                    \A i, j \in DOMAIN s : i # j => s[i].name # s[j].name},
     active   : ProfileNames \cup {"None"}]

\* the names stored by the loop over config_data["profiles"] before it ends
\* or raises
RECURSIVE LoadedNames(_)
LoadedNames(ps) ==
    IF ps = <<>> THEN {}
    ELSE IF ~Head(ps).valid THEN {}
    ELSE {Head(ps).name} \cup LoadedNames(Tail(ps))

ProfilesValid(ps) == \A i \in DOMAIN ps : ps[i].valid

\* load_config: what it leaves in the manager and whether it raised
load_config(profiles, active, file) ==
    IF ~file.readable
    THEN [profiles |-> profiles, active |-> active, raised |-> "ValueError"]
    ELSE IF ~ProfilesValid(file.profiles)
    THEN [profiles |-> profiles \cup LoadedNames(file.profiles),
          active |-> active, raised |-> "ValueError"]
    ELSE [profiles |-> profiles \cup LoadedNames(file.profiles),
          active |-> IF file.active # "None" THEN file.active ELSE active,
          raised |-> ""]

ConfigInit ==
    /\ cmPc = "init"
    /\ cmProfiles = DefaultProfileNames
    /\ cmActive = "comprehensive"
    /\ cmLast = [op |-> "", arg |-> "", raised |-> "", before |-> ""]
    /\ cmCalls = 0

\* cmLast.before is active_profile as the call found it

\* __init__ without a config file, or with one that does not exist
CmConstruct ==
    /\ cmPc = "init"
    /\ cmPc' = "ready"
    /\ cmLast' = [op |-> "__init__", arg |-> "", raised |-> "", before |-> cmActive]
    /\ UNCHANGED <<cmProfiles, cmActive, cmCalls, notConfig>>

\* __init__ with a config file: load_config runs inside the constructor
CmConstructWithFile ==
    /\ cmPc = "init"
    /\ \E file \in ConfigFiles :
         LET r == load_config(cmProfiles, cmActive, file) IN
         /\ cmProfiles' = r.profiles
         /\ cmActive' = r.active
         /\ cmPc' = IF r.raised = "" THEN "ready" ELSE "failed"
         /\ cmLast' = [op |-> "__init__", arg |-> file.active,
                       raised |-> r.raised, before |-> cmActive]
    /\ UNCHANGED <<cmCalls, notConfig>>

CmLoadConfig ==
    /\ cmPc = "ready"
    /\ cmCalls < MaxConfigCalls
    /\ \E file \in ConfigFiles :
         LET r == load_config(cmProfiles, cmActive, file) IN
         /\ cmProfiles' = r.profiles
         /\ cmActive' = r.active
         /\ cmLast' = [op |-> "load_config", arg |-> file.active,
                       raised |-> r.raised, before |-> cmActive]
    /\ cmCalls' = cmCalls + 1
    /\ UNCHANGED <<cmPc, notConfig>>

CmSetActiveProfile ==
    /\ cmPc = "ready"
    /\ cmCalls < MaxConfigCalls
    /\ \E profile_name \in ProfileNames \cup {"comprehensive"} :
         IF profile_name \notin cmProfiles
         THEN /\ cmLast' = [op |-> "set_active_profile", arg |-> profile_name,
                            raised |-> "ValueError", before |-> cmActive]
              /\ UNCHANGED cmActive
         ELSE /\ cmLast' = [op |-> "set_active_profile", arg |-> profile_name,
                            raised |-> "", before |-> cmActive]
              /\ cmActive' = profile_name
    /\ cmCalls' = cmCalls + 1
    /\ UNCHANGED <<cmPc, cmProfiles, notConfig>>

CmCreateProfile ==
    /\ cmPc = "ready"
    /\ cmCalls < MaxConfigCalls
    /\ \E name \in ProfileNames :
         /\ cmProfiles' = cmProfiles \cup {name}
         /\ cmLast' = [op |-> "create_profile", arg |-> name, raised |-> "",
                       before |-> cmActive]
    /\ cmCalls' = cmCalls + 1
    /\ UNCHANGED <<cmPc, cmActive, notConfig>>

\* get_active_profile: self.profiles[self.active_profile]
CmGetActiveProfile ==
    /\ cmPc = "ready"
    /\ cmCalls < MaxConfigCalls
    /\ cmLast' = [op |-> "get_active_profile", arg |-> cmActive,
                  raised |-> IF cmActive \in cmProfiles THEN "" ELSE "KeyError",
                  before |-> cmActive]
    /\ cmCalls' = cmCalls + 1
    /\ UNCHANGED <<cmPc, cmProfiles, cmActive, notConfig>>

ConfigNext ==
    \/ CmConstruct \/ CmConstructWithFile
    \/ CmLoadConfig \/ CmSetActiveProfile \/ CmCreateProfile \/ CmGetActiveProfile

InitConfig ==
    /\ ConfigInit
    /\ OrchIdle
    /\ SortIdle
    /\ StdioIdle
    /\ CloseIdle
    /\ ProtoIdle
    /\ PingIdle
    /\ MalformedIdle
    /\ RegistryIdle
    /\ ContainerIdle
    /\ MaskIdle
    /\ SecurityIdle
    /\ CapabilitiesIdle
    /\ ShutdownIdle
    /\ DispatchIdle
    /\ OAuthIdle
    /\ RewrittenIdle
    /\ CreateIdle
    /\ ReadLoopIdle

SpecConfig == InitConfig /\ [][ConfigNext]_vars

\* C28: once the manager is constructed, after any sequence of load_config,
\* set_active_profile and create_profile calls, active_profile names a
\* profile of the profile map and get_active_profile returns a profile; a
\* set_active_profile call with an unknown name raises and leaves
\* active_profile unchanged.
C28_ActiveProfileExists ==
    cmPc = "ready" =>
        /\ cmActive \in cmProfiles
        /\ cmLast.op = "get_active_profile" => cmLast.raised = ""
        /\ (cmLast.op = "set_active_profile" /\ cmLast.arg \notin cmProfiles)
              => (cmLast.raised = "ValueError" /\ cmActive = cmLast.before)

-----------------------------------------------------------------------------
(* _create_validators (core/validator.py): the profile's enabled and        *)
(* registered validators are instantiated, then sorted                       *)

\* a name that profile.validators can hold and the registry does not know
UnregisteredNames == {"custom_check"}

\* the loop of _create_validators: disabled entries are skipped, and so are
\* names for which registry.create_validator returns None
RECURSIVE CreateValidators(_, _)
CreateValidators(names, enabled) ==
    IF names = <<>> THEN <<>>
    ELSE IF Head(names) \in enabled /\ Head(names) \in ValidatorNames
         THEN <<Head(names)>> \o CreateValidators(Tail(names), enabled)
         ELSE CreateValidators(Tail(names), enabled)

\* the keys that the profiles drawn here use: validators of every priority
\* group, dependents with their dependencies, and an unregistered name
ProfileKeys ==
    {"repo_availability", "license", "runtime_exists", "container_ubi",
     "protocol", "ping", "registry"} \cup UnregisteredNames

CreateInit ==
    /\ crNames \in DistinctSeqs(ProfileKeys, MaxDecl)
    /\ crEnabled \in SUBSET Range(crNames)
    /\ crPc = "create"
    /\ sortDecl = <<>>
    /\ sortPc = "idle"
    /\ sortPos = 0
    /\ sortState = EmptySort

\* the loop of _create_validators, up to the call of the sort
CrCreateValidators ==
    /\ crPc = "create"
    /\ sortDecl' = CreateValidators(crNames, crEnabled)
    /\ sortPc' = "priority"
    /\ sortPos' = 1
    /\ sortState' = EmptySort
    /\ crPc' = "sort"
    /\ UNCHANGED <<crNames, crEnabled, notSortCreate>>

CreateNext ==
    CrCreateValidators \/ SortPriorityStep \/ SortRemainingStep \/ SortReturn

InitCreate ==
    /\ CreateInit
    /\ OrchIdle
    /\ StdioIdle
    /\ CloseIdle
    /\ ProtoIdle
    /\ PingIdle
    /\ MalformedIdle
    /\ RegistryIdle
    /\ ContainerIdle
    /\ MaskIdle
    /\ SecurityIdle
    /\ CapabilitiesIdle
    /\ ShutdownIdle
    /\ DispatchIdle
    /\ OAuthIdle
    /\ RewrittenIdle
    /\ ConfigIdle
    /\ ReadLoopIdle

SpecCreate == InitCreate /\ [][CreateNext]_vars

\* the loops are synchronous code without an await: a loop that can take its
\* next iteration takes it
SpecCreateFair == SpecCreate /\ WF_vars(CreateNext)

\* the profile's enabled validators that the registry knows
EnabledRegistered == {n \in Range(crNames) : n \in crEnabled /\ n \in ValidatorNames}

\* C29: the sort returns, and the order it returns is a permutation of the
\* profile's enabled, registered validators: each of them is there exactly
\* once and nothing else is, so a declared dependency that the profile does
\* not enable is not pulled in.
C29_OrderIsPermutation ==
    /\ <>(sortPc = "done")
    /\ [](sortPc = "done" =>
            /\ Range(sortState.sorted) = EnabledRegistered
            /\ Len(sortState.sorted) = Cardinality(EnabledRegistered))

\* the sort has returned for a profile that enables a dependent and not its
\* dependency, lists the dependency as disabled, and enables a name the
\* registry does not know
C29_Witness ==
    /\ sortPc = "done"
    /\ Len(sortState.sorted) = 1
    /\ \E n \in Range(sortState.sorted), d \in Range(crNames) :
         /\ d \in Range(Dependencies(n))
         /\ d \notin crEnabled
    /\ \E u \in UnregisteredNames : u \in crEnabled

-----------------------------------------------------------------------------
(* The read loop of _test_malformed_request_error (validators/errors.py)    *)
(* against the clock: remaining_timeout is recomputed from start_time on    *)
(* every iteration, while the server may go on writing                       *)

\* malformed_timeout in ticks of the clock
TimeoutTicks == 2
MaxBuffered == 2
MaxCounted == 3

\* what a line of server output is to the loop: a message with a 'method'
\* member, a message without one, or a line parse_response cannot decode
LineKinds == {"method", "response", "undecodable"}

\* mutant: every read is given the whole timeout
RemainingTimeoutWhole(timeout, elapsed) == timeout

\* remaining_timeout = timeout - (loop.time() - start_time)
RemainingTimeout(timeout, elapsed) == timeout - elapsed

ReadLoopInit ==
    /\ rlPc = "check"
    /\ rlElapsed = 0
    /\ rlWaitLeft = 0
    /\ rlBuffered \in SeqsUpTo(LineKinds, 1)
    /\ rlLine = "none"
    /\ rlSkipped = 0
    /\ rlOutcome = "none"

\* the server writes one more line; nothing obliges it to, or to stop
RlServerWrites ==
    /\ rlPc # "done"
    /\ Len(rlBuffered) < MaxBuffered
    /\ \E k \in LineKinds : rlBuffered' = Append(rlBuffered, k)
    /\ UNCHANGED <<rlPc, rlElapsed, rlWaitLeft, rlLine, rlSkipped, rlOutcome,
                   notReadLoop>>

\* the clock advances by one tick; a pending wait_for comes a tick closer to
\* its timeout
RlTick ==
    /\ rlPc # "done"
    /\ rlElapsed < TimeoutTicks \/ (rlPc = "await" /\ rlWaitLeft > 0)
    /\ rlElapsed' = IF rlElapsed < TimeoutTicks THEN rlElapsed + 1 ELSE rlElapsed
    /\ rlWaitLeft' = IF rlPc = "await" /\ rlWaitLeft > 0
                     THEN rlWaitLeft - 1 ELSE rlWaitLeft
    /\ UNCHANGED <<rlPc, rlBuffered, rlLine, rlSkipped, rlOutcome, notReadLoop>>

\* the top of the loop: remaining_timeout <= 0 ends it, otherwise wait_for is
\* called with remaining_timeout
RlCheck ==
    /\ rlPc = "check"
    /\ LET remaining_timeout == RemainingTimeout(TimeoutTicks, rlElapsed) IN
       IF remaining_timeout <= 0
       THEN /\ rlPc' = "done"
            /\ rlOutcome' = "ignored_before_read"
            /\ UNCHANGED rlWaitLeft
       ELSE /\ rlPc' = "await"
            /\ rlWaitLeft' = remaining_timeout
            /\ UNCHANGED rlOutcome
    /\ UNCHANGED <<rlElapsed, rlBuffered, rlLine, rlSkipped, notReadLoop>>

\* readline returns a line
RlReadLine ==
    /\ rlPc = "await"
    /\ rlBuffered # <<>>
    /\ rlLine' = Head(rlBuffered)
    /\ rlBuffered' = Tail(rlBuffered)
    /\ rlPc' = "parse"
    /\ UNCHANGED <<rlElapsed, rlWaitLeft, rlSkipped, rlOutcome, notReadLoop>>

\* wait_for raises asyncio.TimeoutError: the second of the two branches that
\* set "ignored"
RlWaitTimeout ==
    /\ rlPc = "await"
    /\ rlWaitLeft = 0
    /\ rlPc' = "done"
    /\ rlOutcome' = "ignored_in_read"
    /\ UNCHANGED <<rlElapsed, rlWaitLeft, rlBuffered, rlLine, rlSkipped, notReadLoop>>

\* parse_response and the test for 'method': continue, break, or the
\* exception of a line that cannot be decoded
RlParse ==
    /\ rlPc = "parse"
    /\ IF rlLine = "method"
       THEN /\ rlPc' = "check"
            /\ rlSkipped' = IF rlSkipped < MaxCounted THEN rlSkipped + 1 ELSE rlSkipped
            /\ UNCHANGED rlOutcome
       ELSE /\ rlPc' = "done"
            /\ rlOutcome' = rlLine
            /\ UNCHANGED rlSkipped
    /\ UNCHANGED <<rlElapsed, rlWaitLeft, rlBuffered, rlLine, notReadLoop>>

ReadLoopNext ==
    \/ RlServerWrites \/ RlTick
    \/ RlCheck \/ RlReadLine \/ RlWaitTimeout \/ RlParse

InitReadLoop ==
    /\ ReadLoopInit
    /\ OrchIdle
    /\ SortIdle
    /\ StdioIdle
    /\ CloseIdle
    /\ ProtoIdle
    /\ PingIdle
    /\ MalformedIdle
    /\ RegistryIdle
    /\ ContainerIdle
    /\ MaskIdle
    /\ SecurityIdle
    /\ CapabilitiesIdle
    /\ ShutdownIdle
    /\ DispatchIdle
    /\ OAuthIdle
    /\ RewrittenIdle
    /\ ConfigIdle
    /\ CreateIdle

SpecReadLoop == InitReadLoop /\ [][ReadLoopNext]_vars

\* the clock goes on, and the event loop runs the coroutine whenever it can
\* take a step; the server is under no obligation
SpecReadLoopFair ==
    /\ SpecReadLoop
    /\ WF_vars(RlTick)
    /\ WF_vars(RlCheck)
    /\ WF_vars(RlReadLine)
    /\ WF_vars(RlWaitTimeout)
    /\ WF_vars(RlParse)

\* C30: the read loop of the malformed-request sub-test ends, whatever the
\* server writes and however long it goes on writing messages with a 'method'
\* member; it ends on a line without 'method' or one that cannot be decoded,
\* or once the timeout has elapsed since the loop started.
C30_ReadLoopTerminates ==
    /\ <>(rlPc = "done")
    /\ [](rlPc = "done" =>
            \/ rlOutcome \in {"response", "undecodable"}
            \/ /\ rlOutcome \in {"ignored_before_read", "ignored_in_read"}
               /\ rlElapsed >= TimeoutTicks)

\* the loop ended on the timeout after skipping server-initiated messages,
\* with more of them waiting to be read
C30_Witness ==
    /\ rlPc = "done"
    /\ rlOutcome = "ignored_before_read"
    /\ rlSkipped >= 2
    /\ rlBuffered # <<>>
    /\ \A i \in DOMAIN rlBuffered : rlBuffered[i] = "method"

============================================================================
